---- MODULE Spec2Model ----
(***************************************************************************)
(* A model of the FlexRadio waveform SDK runtime: the command engine of    *)
(* radio.c (sequence numbers, the response queue, the callback work queue) *)
(* and the slice state machine with the data-plane threads of vita.c.      *)
(*                                                                         *)
(* Strings of digits are sequences of digit values (0..15), so that        *)
(* printf("%u") and strtoul are real conversions.  `char` is the signed    *)
(* 8-bit type of the default (amd64) build.                                *)
(***************************************************************************)
EXTENDS Integers, Sequences, FiniteSets, Bags, TLC

\* ------------------------------------------------------------------ bounds
MaxSends == 2           \* command sends started in one run
MaxFrames == 2          \* R/Q frames received in one run
NPoolThreads == 2       \* threads serving the callback work queue
MaxStatus == 2          \* slice status messages received in one run
MaxPkts == 2            \* data packets received in one run
MaxLines == 2           \* lines received on the control connection in one run
MaxApi == 5             \* calls of the meter API in one run
MeterSlots == 2         \* slots of the meter array of a packet (363 in vita.h)
MaxDisc == 2            \* packets received on the discovery port in one call
MaxArgs == 3            \* tokens of the argv given to find_kwarg

\* ------------------------------------------------------- program constants
SeqMask == 2147483647   \* ~(1 << 31)

\* The threads that send commands: a user thread sending commands with a
\* completion callback (and, for a timed command, a queued callback), and a
\* thread of the callback pool, which answers a command of the radio (no
\* callback) or runs a user callback that sends a command with a callback
Senders == {"user", "pool"}

VARIABLES
    sequence,   \* radio->sequence
    out,        \* the control connection's output buffer: the emitted lines
    rq,         \* radio->rq_head: the response queue, a list of entries
    snd,        \* each sending thread's position in the send function
    nsent,      \* sends started so far
    nentries,   \* response entries allocated so far (malloc gives fresh ones)
    freed,      \* response entries that rq_call_cb has freed
    cb_wq,      \* radio->cb_wq: items added and not yet run
    calls,      \* the user callbacks invoked so far (a bag of calls)
    nframes,    \* frames received so far
    active_slice,   \* each waveform's active_slice
    vita,           \* each waveform's vita.sock and vita.base
    thr,            \* the pairs of threads created by vita_init
    wq,             \* the data work queue (static, one for the process)
    wq_sem,         \* the value of the semaphore wq_sem
    wq_running,     \* the flag wq_running
    wq_thread,      \* the thread handle wq_thread
    task_freed,     \* the data work items that have been freed
    executed,       \* the data work items in the order their callbacks began
    ctl,            \* the control thread's position in process_status_message
    announced,      \* the state last scheduled to each waveform's state callbacks
    nstatus,        \* slice status messages received so far
    npkts,          \* data packets received so far
    cmd_cbs,        \* each waveform's cmd_cbs: the registered command callbacks
    status_cbs,     \* each waveform's status_cbs: the registered status callbacks
    meter_head,     \* each waveform's meter_head: the registered meters
    streams,        \* each waveform's vita.*_stream_*_id, set from the radio's answer
    invoked,        \* the command and status callbacks called, in the order they began
    lines,          \* the commands and the other status lines received so far
    udp,            \* the meter packets handed to sendto on the data socket
    api,            \* the meter API calls made so far with their return values
    meter_sequence, \* vita.meter_sequence of the waveform that sends meters
    disc,           \* a call of waveform_discover_radio: its position and result
    kw,             \* a call of find_kwarg: its arguments and its result
    pkts            \* the data packets read from the data socket, in order

vitavars == <<active_slice, vita, thr, wq, wq_sem, wq_running, wq_thread, task_freed,
              executed, ctl, announced, nstatus, npkts>>

apivars == <<udp, api, meter_sequence, disc, kw, pkts>>

dispvars == <<cmd_cbs, status_cbs, meter_head, streams, invoked, lines, apivars>>

vars == <<sequence, out, rq, snd, nsent, nentries, freed, cb_wq, calls, nframes, vitavars,
          dispvars>>

\* ------------------------------------------------------------- conversions
RECURSIVE PrintU(_)
\* printf("%u"): the decimal digits of n, most significant first
PrintU(n) == IF n < 10 THEN <<n>> ELSE Append(PrintU(n \div 10), n % 10)

RECURSIVE StrToULFrom(_, _, _)
StrToULFrom(digits, base, acc) ==
    IF digits = <<>> \/ Head(digits) >= base
    THEN acc
    ELSE StrToULFrom(Tail(digits), base, acc * base + Head(digits))

\* strtoul(token, &endptr, base): the value of the longest prefix of digits
\* of that base (0 when there is none)
StrToUL(digits, base) == StrToULFrom(digits, base, 0)

\* endptr == token: no digit was converted
NoDigits(digits, base) == digits = <<>> \/ Head(digits) >= base

\* the base of the response code field
CodeBase == 16

\* A line is a sequence of tokens.  A token is a word, or key=value (the two
\* parts sdssplitlen(.., "=", ..) gives); a number is the sequence of its
\* characters: the digits by value, 45 the minus sign.
Word(w) == [key |-> "", val |-> w]
KeyVal(k, v) == [key |-> k, val |-> v]

\* long n = strtoul(token, &endptr, 10): an optional minus sign, then the
\* digits; the value is negated in the unsigned type and read back as long
StrToL(tok) ==
    IF tok # <<>> /\ Head(tok) = 45
    THEN 0 - StrToUL(Tail(tok), 10)
    ELSE StrToUL(tok, 10)

\* a search that keeps going after a match and gives the last one
find_kwarg_Last(argv, key) ==
    IF \E i \in 1..Len(argv) : argv[i].key = key
    THEN CHOOSE i \in 1..Len(argv) :
            /\ argv[i].key = key
            /\ \A j \in (i + 1)..Len(argv) : argv[j].key # key
    ELSE 0

\* find_kwarg: the first key=value token with that key, as an index into
\* argv (0 stands for NULL)
find_kwarg(argv, key) ==
    IF \E i \in 1..Len(argv) : argv[i].key = key
    THEN CHOOSE i \in 1..Len(argv) :
            /\ argv[i].key = key
            /\ \A j \in 1..(i - 1) : argv[j].key # key
    ELSE 0

RECURSIVE sdssplitlen(_, _)
\* sdssplitlen(token, len, "=", 1, &count) for a token given as its
\* characters: the parts between the "=" signs; cur is the part being read.
\* A token of length 0 has no part.
sdssplitlen(token, cur) ==
    IF token = <<>> THEN <<cur>>
    ELSE IF Head(token) = "="
    THEN <<cur>> \o sdssplitlen(Tail(token), <<>>)
    ELSE sdssplitlen(Tail(token), Append(cur, Head(token)))

\* the token as find_kwarg sees it: key and value when the split gives two
\* parts (count == 2); a token of another form has no key (no key of
\* characters equals <<"">>)
Kvp(token) ==
    LET kvp == IF token = <<>> THEN <<>> ELSE sdssplitlen(token, <<>>)
    IN  IF Len(kvp) = 2 THEN KeyVal(kvp[1], kvp[2]) ELSE KeyVal(<<"">>, token)

\* A float argument: the number n / 2^e, a NaN or an infinity of sign n.
Num(n, e) == [k |-> "num", n |-> n, e |-> e]
NaN == [k |-> "nan", n |-> 0, e |-> 0]
Inf(sign) == [k |-> "inf", n |-> sign, e |-> 0]

\* struct sockaddr_in* addr: NULL, or the address with sin_addr and sin_port
\* as their bytes in network order
NullAddr == [null |-> TRUE, sin_addr |-> <<>>, sin_port |-> <<>>]

\* ---------------------------------------------------------------- sending
Idle == [pc |-> "idle", seq |-> 0, cb |-> FALSE, qcb |-> FALSE, tmp |-> 0, ret |-> 0]

\* (sequence + 1) & ~(1 << 31), on the two 16-bit halves of the low word (the
\* sum 0x7fffffff + 1 is beyond the integers of the model checker): the
\* increment carries into the upper half, whose bit 15 (bit 31) the mask clears
NextSeq(s) ==
    LET lo == s % 65536
        hi == s \div 65536
        lo1 == (lo + 1) % 65536
        hi1 == hi + (IF lo = 65535 THEN 1 ELSE 0)
    IN  (hi1 % ((SeqMask \div 65536) + 1)) * 65536 + lo1

\* asprintf of the line: the sequence number is read here
SendFormat(t, cb, qcb) ==
    /\ snd[t].pc = "idle"
    /\ nsent < MaxSends
    /\ snd' = [snd EXCEPT ![t] = [pc |-> "emit", seq |-> sequence, cb |-> cb,
                                  qcb |-> qcb, tmp |-> 0, ret |-> 0]]
    /\ nsent' = nsent + 1
    /\ UNCHANGED <<dispvars, sequence, out, rq, nentries, freed, cb_wq, calls, nframes, vitavars>>

\* evbuffer_add_vprintf: the line is handed to the transport
SendEmit(t) ==
    /\ snd[t].pc = "emit"
    /\ out' = Append(out, PrintU(snd[t].seq))
    /\ snd' = [snd EXCEPT ![t].pc = IF snd[t].cb THEN "add" ELSE "load"]
    /\ UNCHANGED <<dispvars, sequence, rq, nsent, nentries, freed, cb_wq, calls, nframes, vitavars>>

\* add_sequence_to_response_queue: the sequence number is read again
add_sequence_to_response_queue(t) ==
    /\ snd[t].pc = "add"
    /\ rq' = Append(rq, [id |-> nentries + 1, sequence |-> sequence,
                         queued_cb |-> snd[t].qcb, line |-> snd[t].seq,
                         cb |-> "user", wf |-> 0, arg |-> ""])
    /\ nentries' = nentries + 1
    /\ snd' = [snd EXCEPT ![t].pc = "load"]
    /\ UNCHANGED <<dispvars, sequence, out, nsent, freed, cb_wq, calls, nframes, vitavars>>

\* the load of  sequence = (sequence + 1) & ~(1 << 31)
SendLoad(t) ==
    /\ snd[t].pc = "load"
    /\ snd' = [snd EXCEPT ![t].pc = "store", ![t].tmp = sequence]
    /\ UNCHANGED <<dispvars, sequence, out, rq, nsent, nentries, freed, cb_wq, calls, nframes, vitavars>>

\* the store of  sequence = (sequence + 1) & ~(1 << 31)
SendStore(t) ==
    /\ snd[t].pc = "store"
    /\ sequence' = NextSeq(snd[t].tmp)
    /\ snd' = [snd EXCEPT ![t].pc = "ret"]
    /\ UNCHANGED <<dispvars, out, rq, nsent, nentries, freed, cb_wq, calls, nframes, vitavars>>

\* return (uint32_t) wf->radio->sequence: the value returned is the counter
\* as it is read now.  The user thread holds the value (ret) until its next
\* send; the code run by the pool drops it (radio_call_command_cb).
SendReturn(t) ==
    /\ snd[t].pc = "ret"
    /\ snd' = [snd EXCEPT ![t] = [Idle EXCEPT !.ret = IF t = "user" THEN sequence ELSE 0]]
    /\ UNCHANGED <<dispvars, sequence, out, rq, nsent, nentries, freed, cb_wq, calls, nframes, vitavars>>

\* -------------------------------------------------------------- responses
\* a search that takes the head of the list whatever its sequence
RqSearch_Head(q, s) ==
    IF q # <<>> THEN 1 ELSE 0

\* LL_SEARCH_SCALAR(rq_head, entry, sequence, s): the first entry with that
\* sequence, as an index into the list (0: none)
RqSearch(q, s) ==
    IF \E i \in 1..Len(q) : q[i].sequence = s
    THEN CHOOSE i \in 1..Len(q) :
            /\ q[i].sequence = s
            /\ \A j \in 1..(i - 1) : q[j].sequence # s
    ELSE 0

\* LL_DELETE(rq_head, entry)
RqDelete(q, i) == [j \in 1..(Len(q) - 1) |-> IF j < i THEN q[j] ELSE q[j + 1]]

\* a condition that forgets the final response
RemovesEntry_QueuedOnly(type, code) ==
    type = "CMD_CB_QUEUED" /\ code # 0

\* the entry leaves the queue on a final response or a failed queueing
RemovesEntry(type, code) ==
    type = "CMD_CB_COMPLETE" \/ (type = "CMD_CB_QUEUED" /\ code # 0)

complete_response_entry(type, s, code, message) ==
    LET i == RqSearch(rq, s) IN
    IF i = 0
    THEN UNCHANGED <<rq, cb_wq>>
    ELSE /\ rq' = IF RemovesEntry(type, code) THEN RqDelete(rq, i) ELSE rq
         /\ cb_wq' = Append(cb_wq, [fn |-> "rq_call_cb", type |-> type, code |-> code,
                                    message |-> message, rq_entry |-> rq[i]])

\* what the radio may send in the fields of a response line
FrameSeqs == {PrintU(0)}
FrameCodes == {<<0, 0, 0, 0, 0, 0, 0, 0>>, <<5, 0, 0, 0, 0, 0, 1, 0>>}
FrameMsgs == {"ok"}

\* radio_process_line, cases 'R' and 'Q'
RecvResponse(tag, seqTok, codeTok, message) ==
    /\ nframes < MaxFrames
    /\ nframes' = nframes + 1
    /\ IF NoDigits(seqTok, 10) \/ NoDigits(codeTok, CodeBase)
       THEN UNCHANGED <<rq, cb_wq>>
       ELSE complete_response_entry(
                IF tag = "R" THEN "CMD_CB_COMPLETE" ELSE "CMD_CB_QUEUED",
                StrToUL(seqTok, 10), StrToUL(codeTok, CodeBase), message)
    /\ UNCHANGED <<dispvars, sequence, out, snd, nsent, nentries, freed, calls, vitavars>>

\* the stream ids radio_set_waveform_streams looks for
StreamKeys == {"tx_stream_in_id", "rx_stream_in_id", "tx_stream_out_id",
               "rx_stream_out_id", "byte_stream_in_id", "byte_stream_out_id"}

\* radio_set_waveform_streams, the completion callback of "waveform create":
\* the stream ids after the call (find_kwarg_as_int stores what it finds)
radio_set_waveform_streams(ids, code, message) ==
    IF code # 0
    THEN ids
    ELSE [k \in StreamKeys |->
            LET i == find_kwarg(message, k)
            IN  IF i = 0 THEN ids[k] ELSE StrToUL(message[i].val, 10)]

\* register_meter_cb, the completion callback of "meter create": the meter
\* list after the call.  The id is harvested from the message; on a non-zero
\* code, a message without a number or an id above UINT16_MAX the meter is
\* deleted from the list and freed.
register_meter_cb(meters, code, message, arg) ==
    LET failed == \/ code # 0
                  \/ message = <<>>
                  \/ message[1].key # ""
                  \/ NoDigits(message[1].val, 10)
                  \/ StrToUL(message[1].val, 10) > 65535
    IN  IF failed
        THEN SelectSeq(meters, LAMBDA m : m.name # arg)
        ELSE [i \in 1..Len(meters) |->
                IF meters[i].name = arg
                THEN [meters[i] EXCEPT !.id = StrToUL(message[1].val, 10)]
                ELSE meters[i]]

\* rq_call_cb, run by a thread of the callback pool.  The pool takes items in
\* order, but its threads run them in parallel: any of the first
\* NPoolThreads items may be the next to run.
\* Reading a freed entry is undefined: the stale memory may still hold the
\* callback (it is invoked) or not (it is not).
rq_call_cb(k, stale) ==
    /\ k \in 1..Len(cb_wq)
    /\ k <= NPoolThreads
    /\ cb_wq[k].fn = "rq_call_cb"
    /\ LET desc == cb_wq[k]
           e == desc.rq_entry
           has_cb == IF desc.type = "CMD_CB_COMPLETE" THEN TRUE ELSE e.queued_cb
           dangling == e.id \in freed
       IN
       /\ (~dangling) => stale
       /\ calls' = IF has_cb /\ stale /\ e.cb = "user"
                   THEN calls (+) SetToBag({[entry |-> e.id, type |-> desc.type,
                                             code |-> desc.code, message |-> desc.message]})
                   ELSE calls
       /\ freed' = IF RemovesEntry(desc.type, desc.code) THEN freed \cup {e.id} ELSE freed
       /\ streams' = IF has_cb /\ stale /\ e.cb = "radio_set_waveform_streams"
                     THEN [streams EXCEPT ![e.wf] =
                              radio_set_waveform_streams(@, desc.code, desc.message)]
                     ELSE streams
       /\ meter_head' = IF has_cb /\ stale /\ e.cb = "register_meter_cb"
                        THEN [meter_head EXCEPT ![e.wf] =
                                 register_meter_cb(@, desc.code, desc.message, e.arg)]
                        ELSE meter_head
       /\ cb_wq' = [j \in 1..(Len(cb_wq) - 1) |-> IF j < k THEN cb_wq[j] ELSE cb_wq[j + 1]]
    /\ UNCHANGED <<apivars, cmd_cbs, status_cbs, invoked, lines, sequence, out, rq, snd, nsent,
                   nentries, nframes, vitavars>>

\* ------------------------------------------------------------- data plane
\* the waveforms created in the process, in the order of the radio's list,
\* and their short names (waveform_create)
Waveforms == {1, 2}
NWaveforms == Cardinality(Waveforms)
short_name == [w \in Waveforms |-> IF w = 1 THEN "M1" ELSE "M2"]

\* the state callbacks registered for each waveform, in the order of the list
state_cbs == <<"cb1", "cb2">>

\* the slice field and the mode of the status messages the radio may send
SliceTokens == {<<0>>, <<1>>, <<2, 5, 5>>}
Modes == {"M1", "M2", "USB"}

\* (char) slice: the low eight bits, as a signed value
ToChar(n) == LET b == n % 256 IN IF b >= 128 THEN b - 256 ELSE b

\* the control thread between two status messages
CtlIdle == [pc |-> "idle", w |-> 0, mode |-> "", n |-> 0, slice |-> 0]

\* the process is running (no step of it has aborted it)
Alive == ctl.pc # "crashed"

\* the threads of one vita_init: the I/O thread (vita_evt_loop) with its
\* position and the exit request of its event base, and the consumer
\* (vita_cb_loop) with its position and its current_task
NewThreads(w) == [wf |-> w, io |-> "start", exit |-> FALSE,
                  cb |-> "init", task |-> 0, joined |-> FALSE]

\* the state_cb_wq_desc items of one waveform, one for each state callback,
\* in the order of the callback list
StateItems(w, state) ==
    [i \in 1..Len(state_cbs) |->
        [fn |-> "radio_call_state_cb", wf |-> w, state |-> state, cb |-> state_cbs[i]]]

\* process_status_message for "slice <n> mode=<m>": strtoul of the slice
\* field, then mode_change with the value cast to char
process_status_message(tok, mode) ==
    /\ Alive
    /\ ctl.pc = "idle"
    /\ nstatus < MaxStatus
    /\ nstatus' = nstatus + 1
    /\ ctl' = [pc |-> "loop", w |-> 1, mode |-> mode, n |-> StrToUL(tok, 10),
               slice |-> ToChar(StrToUL(tok, 10))]
    /\ UNCHANGED <<dispvars, sequence, out, rq, snd, nsent, nentries, freed, cb_wq, calls, nframes,
                   active_slice, vita, thr, wq, wq_sem, wq_running, wq_thread, task_freed,
                   executed, announced, npkts>>

\* the status_cb_wq_desc items of one status message, one for each status
\* callback of each waveform, in the order of the lists: the loop at the end
\* of process_status_message, which compares no name
StatusItems(message) ==
    LET RECURSIVE Of(_)
        Of(w) == IF w > NWaveforms THEN <<>>
                 ELSE [i \in 1..Len(status_cbs[w]) |->
                          [fn |-> "radio_call_status_cb", wf |-> w,
                           cb |-> status_cbs[w][i], message |-> message]] \o Of(w + 1)
    IN  Of(1)

\* the message "slice <n> mode=<m>" as sdssplitargs splits it
SliceMessage(c) == <<Word("slice"), Word(PrintU(c.n)), KeyVal("mode", c.mode)>>

\* the items process_status_message adds once mode_change has returned
FanOut(c) == IF c.w = NWaveforms THEN StatusItems(SliceMessage(c)) ELSE <<>>

\* the control thread goes on to the next waveform of the list, or returns
CtlAdvance(c) == IF c.w = NWaveforms THEN CtlIdle ELSE [c EXCEPT !.pc = "loop", !.w = c.w + 1]

\* the first test of mode_change's loop body
Deselected(w, mode, slice) == active_slice[w] = slice /\ short_name[w] # mode

\* the second test of mode_change's loop body
Selected(w, mode, slice) == active_slice[w] = -1 /\ short_name[w] = mode

\* mode_change, the body of the loop for the waveform ctl.w: a deselected
\* waveform is made inactive and vita_destroy begins (it returns at once when
\* vita.sock is 0, otherwise it clears wq_running and joins wq_thread); a
\* selected inactive waveform is made active and vita_init creates the two
\* threads.  After the last waveform process_status_message adds the items
\* of the status callbacks.
mode_change ==
    /\ Alive
    /\ ctl.pc = "loop"
    /\ LET w == ctl.w IN
       IF Deselected(w, ctl.mode, ctl.slice)
       THEN /\ announced' = [announced EXCEPT ![w] = "INACTIVE"]
            /\ active_slice' = [active_slice EXCEPT ![w] = -1]
            /\ IF vita[w].sock = 0
               THEN /\ cb_wq' = cb_wq \o StateItems(w, "INACTIVE") \o FanOut(ctl)
                    /\ ctl' = CtlAdvance(ctl)
                    /\ UNCHANGED wq_running
               ELSE /\ cb_wq' = cb_wq \o StateItems(w, "INACTIVE")
                    /\ wq_running' = FALSE
                    /\ ctl' = [ctl EXCEPT !.pc = "join"]
            /\ UNCHANGED <<thr, wq_sem, wq_thread>>
       ELSE IF Selected(w, ctl.mode, ctl.slice)
       THEN /\ cb_wq' = cb_wq \o StateItems(w, "ACTIVE") \o FanOut(ctl)
            /\ announced' = [announced EXCEPT ![w] = "ACTIVE"]
            /\ active_slice' = [active_slice EXCEPT ![w] = ctl.slice]
            /\ wq_sem' = 0
            /\ thr' = Append(thr, NewThreads(w))
            /\ wq_thread' = Len(thr) + 1
            /\ ctl' = CtlAdvance(ctl)
            /\ UNCHANGED wq_running
       ELSE /\ cb_wq' = cb_wq \o FanOut(ctl)
            /\ ctl' = CtlAdvance(ctl)
            /\ UNCHANGED <<announced, active_slice, thr, wq_sem, wq_thread, wq_running>>
    /\ UNCHANGED <<dispvars, sequence, out, rq, snd, nsent, nentries, freed, calls, nframes,
                   vita, wq, task_freed, executed, nstatus, npkts>>

\* radio_evt_loop after event_base_dispatch: the control thread goes on to
\* the next waveform of wf_list, or returns
DownAdvance(c) ==
    IF c.w = NWaveforms THEN [CtlIdle EXCEPT !.pc = "returned"]
    ELSE [c EXCEPT !.pc = "down", !.w = c.w + 1]

\* vita_destroy from pthread_join on: the join returns when the thread
\* wq_thread has ended; then event_base_loopexit on vita.base and the
\* clean-up of the work queue.  Joining a thread that was joined before, and
\* event_base_loopexit on an event base that was freed, are undefined: the
\* call returns without effect (ok) or the process aborts.  With no event base
\* yet (NULL) event_base_loopexit fails and asks nobody to exit.  When it
\* returns to mode_change for the last waveform, process_status_message adds
\* the items of the status callbacks.
vita_destroy(ok) ==
    /\ Alive
    /\ ctl.pc \in {"join", "downjoin"}
    /\ LET w == ctl.w
           b == vita[w].base
           rejoin == thr[wq_thread].joined
           stale == b # 0 /\ thr[b].io = "done"
       IN
       /\ rejoin \/ thr[wq_thread].cb = "done"
       /\ (~rejoin /\ ~stale) => ok
       /\ IF ~ok
          THEN /\ ctl' = [ctl EXCEPT !.pc = "crashed"]
               /\ UNCHANGED <<thr, wq, task_freed, cb_wq>>
          ELSE /\ thr' = [t \in 1..Len(thr) |->
                            [thr[t] EXCEPT !.joined = @ \/ t = wq_thread,
                                           !.exit = @ \/ (t = b /\ thr[t].io # "done")]]
               /\ task_freed' = task_freed \cup {wq[i] : i \in 1..Len(wq)}
               /\ wq' = <<>>
               /\ cb_wq' = IF ctl.pc = "join" THEN cb_wq \o FanOut(ctl) ELSE cb_wq
               /\ ctl' = IF ctl.pc = "join" THEN CtlAdvance(ctl) ELSE DownAdvance(ctl)
    /\ UNCHANGED <<dispvars, sequence, out, rq, snd, nsent, nentries, freed, calls, nframes,
                   active_slice, vita, wq_sem, wq_running, wq_thread, executed, announced,
                   nstatus, npkts>>

\* radio_event_cb for BEV_EVENT_TIMEOUT, BEV_EVENT_EOF and BEV_EVENT_ERROR:
\* event_base_loopbreak, after which event_base_dispatch returns in
\* radio_evt_loop and no further line is read
radio_event_cb(what) ==
    /\ Alive
    /\ ctl.pc = "idle"
    /\ what \in {"BEV_EVENT_TIMEOUT", "BEV_EVENT_EOF", "BEV_EVENT_ERROR"}
    /\ ctl' = [CtlIdle EXCEPT !.pc = "down", !.w = 1]
    /\ UNCHANGED <<dispvars, sequence, out, rq, snd, nsent, nentries, freed, cb_wq, calls, nframes,
                   active_slice, vita, thr, wq, wq_sem, wq_running, wq_thread, task_freed,
                   executed, announced, nstatus, npkts>>

\* radio_evt_loop after event_base_dispatch: vita_destroy for the waveform
\* ctl.w of the radio, up to its pthread_join (it returns at once when
\* vita.sock is 0); after the last waveform the buffer event and the event
\* base are freed and the thread returns
radio_evt_loop ==
    /\ Alive
    /\ ctl.pc = "down"
    /\ IF vita[ctl.w].sock = 0
       THEN /\ ctl' = DownAdvance(ctl)
            /\ UNCHANGED wq_running
       ELSE /\ wq_running' = FALSE
            /\ ctl' = [ctl EXCEPT !.pc = "downjoin"]
    /\ UNCHANGED <<dispvars, sequence, out, rq, snd, nsent, nentries, freed, cb_wq, calls, nframes,
                   active_slice, vita, thr, wq, wq_sem, wq_thread, task_freed,
                   executed, announced, nstatus, npkts>>

\* waveform_radio_destroy, called by the user once waveform_radio_wait has
\* returned (the control thread has ended): the mutex is destroyed and the
\* radio structure freed
waveform_radio_destroy ==
    /\ Alive
    /\ ctl.pc = "returned"
    /\ ctl' = [ctl EXCEPT !.pc = "destroyed"]
    /\ UNCHANGED <<dispvars, sequence, out, rq, snd, nsent, nentries, freed, cb_wq, calls, nframes,
                   active_slice, vita, thr, wq, wq_sem, wq_running, wq_thread, task_freed,
                   executed, announced, nstatus, npkts>>

\* vita_evt_loop: socket() stores the descriptor in vita.sock
IoSocket(t) ==
    /\ Alive
    /\ t \in 1..Len(thr)
    /\ thr[t].io = "start"
    /\ thr' = [thr EXCEPT ![t].io = "sock"]
    /\ vita' = [vita EXCEPT ![thr[t].wf].sock = 1]
    /\ UNCHANGED <<dispvars, sequence, out, rq, snd, nsent, nentries, freed, cb_wq, calls, nframes,
                   active_slice, wq, wq_sem, wq_running, wq_thread, task_freed, executed,
                   ctl, announced, nstatus, npkts>>

\* vita_evt_loop: event_base_new() stores the base in vita.base, the read
\* event is added
IoBase(t) ==
    /\ Alive
    /\ t \in 1..Len(thr)
    /\ thr[t].io = "sock"
    /\ thr' = [thr EXCEPT ![t].io = "send"]
    /\ vita' = [vita EXCEPT ![thr[t].wf].base = t]
    /\ UNCHANGED <<dispvars, sequence, out, rq, snd, nsent, nentries, freed, cb_wq, calls, nframes,
                   active_slice, wq, wq_sem, wq_running, wq_thread, task_freed, executed,
                   ctl, announced, nstatus, npkts>>

\* vita_evt_loop: the two commands that tell the radio the port, each sent
\* without a callback (the two sends are one step here; the steps of
\* concurrent sends are those of SendFormat .. SendReturn)
IoSend(t) ==
    /\ Alive
    /\ t \in 1..Len(thr)
    /\ thr[t].io = "send"
    /\ out' = out \o <<PrintU(sequence), PrintU(NextSeq(sequence))>>
    /\ sequence' = NextSeq(NextSeq(sequence))
    /\ thr' = [thr EXCEPT ![t].io = "loop"]
    /\ UNCHANGED <<dispvars, rq, snd, nsent, nentries, freed, cb_wq, calls, nframes,
                   active_slice, vita, wq, wq_sem, wq_running, wq_thread, task_freed,
                   executed, ctl, announced, nstatus, npkts>>

\* is_transmit_packet: the low bit of the stream id (in host order, after
\* the ntohl of vita_read_cb)
is_transmit_packet(packet) == packet.stream_id % 2 = 1

\* vita_read_cb, run by event_base_dispatch for a packet on the socket.  A
\* packet is [kind, stream_id]: kind is the class the header tests find
\* ("audio", "byte", "unknown"), or "invalid" for a packet that fails the
\* tests of the OUI, the length or the information class and is dropped.
\* An audio packet is compared with the waveform's incoming stream id of its
\* direction: an id of 0 takes the packet's id, another id than the
\* packet's drops the packet.  For a packet that is not dropped one work
\* item for the registered data callback of its list is appended, then
\* sem_post.
vita_read_cb(t, packet) ==
    /\ Alive
    /\ t \in 1..Len(thr)
    /\ thr[t].io = "loop"
    /\ npkts < MaxPkts
    /\ npkts' = npkts + 1
    /\ pkts' = Append(pkts, packet)
    /\ LET w == thr[t].wf
           key == IF is_transmit_packet(packet) THEN "tx_stream_in_id"
                                                ELSE "rx_stream_in_id"
           audio == packet.kind = "audio"
           dropped == \/ packet.kind = "invalid"
                      \/ /\ audio
                         /\ streams[w][key] # 0
                         /\ streams[w][key] # packet.stream_id
       IN  /\ streams' = IF audio /\ streams[w][key] = 0
                         THEN [streams EXCEPT ![w][key] = packet.stream_id]
                         ELSE streams
           /\ IF dropped
              THEN UNCHANGED <<wq, wq_sem>>
              ELSE /\ wq' = Append(wq, npkts + 1)
                   /\ wq_sem' = wq_sem + 1
    /\ UNCHANGED <<cmd_cbs, status_cbs, meter_head, invoked, lines, udp, api, meter_sequence,
                   disc, kw>>
    /\ UNCHANGED <<sequence, out, rq, snd, nsent, nentries, freed, cb_wq, calls, nframes,
                   active_slice, vita, thr, wq_running, wq_thread, task_freed, executed,
                   ctl, announced, nstatus>>

\* vita_evt_loop: event_base_dispatch returns after the exit request; the
\* event and the base are freed, the socket is closed and vita.sock zeroed
IoExit(t) ==
    /\ Alive
    /\ t \in 1..Len(thr)
    /\ thr[t].io = "loop"
    /\ thr[t].exit
    /\ thr' = [thr EXCEPT ![t].io = "done"]
    /\ vita' = [vita EXCEPT ![thr[t].wf].sock = 0]
    /\ UNCHANGED <<dispvars, sequence, out, rq, snd, nsent, nentries, freed, cb_wq, calls, nframes,
                   active_slice, wq, wq_sem, wq_running, wq_thread, task_freed, executed,
                   ctl, announced, nstatus, npkts>>

\* vita_cb_loop: wq_running = true
CbStart(t) ==
    /\ Alive
    /\ t \in 1..Len(thr)
    /\ thr[t].cb = "init"
    /\ wq_running' = TRUE
    /\ thr' = [thr EXCEPT ![t].cb = "top"]
    /\ UNCHANGED <<dispvars, sequence, out, rq, snd, nsent, nentries, freed, cb_wq, calls, nframes,
                   active_slice, vita, wq, wq_sem, wq_thread, task_freed, executed,
                   ctl, announced, nstatus, npkts>>

\* vita_cb_loop: while (wq_running)
CbTop(t) ==
    /\ Alive
    /\ t \in 1..Len(thr)
    /\ thr[t].cb = "top"
    /\ thr' = [thr EXCEPT ![t].cb = IF wq_running THEN "wait" ELSE "done"]
    /\ UNCHANGED <<dispvars, sequence, out, rq, snd, nsent, nentries, freed, cb_wq, calls, nframes,
                   active_slice, vita, wq, wq_sem, wq_running, wq_thread, task_freed,
                   executed, ctl, announced, nstatus, npkts>>

\* vita_cb_loop: sem_timedwait takes the semaphore, or times out after a
\* second; then the test wq == NULL and current_task = wq, read without the
\* lock
CbWait(t) ==
    /\ Alive
    /\ t \in 1..Len(thr)
    /\ thr[t].cb = "wait"
    /\ IF wq_sem = 0
       THEN /\ thr' = [thr EXCEPT ![t].cb = "top"]
            /\ UNCHANGED wq_sem
       ELSE /\ wq_sem' = wq_sem - 1
            /\ thr' = [thr EXCEPT ![t].cb = "check"]
    /\ UNCHANGED <<dispvars, sequence, out, rq, snd, nsent, nentries, freed, cb_wq, calls, nframes,
                   active_slice, vita, wq, wq_running, wq_thread, task_freed, executed,
                   ctl, announced, nstatus, npkts>>

CbCheck(t) ==
    /\ Alive
    /\ t \in 1..Len(thr)
    /\ thr[t].cb = "check"
    /\ thr' = IF wq = <<>>
              THEN [thr EXCEPT ![t].cb = "top"]
              ELSE [thr EXCEPT ![t].cb = "take", ![t].task = Head(wq)]
    /\ UNCHANGED <<dispvars, sequence, out, rq, snd, nsent, nentries, freed, cb_wq, calls, nframes,
                   active_slice, vita, wq, wq_sem, wq_running, wq_thread, task_freed,
                   executed, ctl, announced, nstatus, npkts>>

\* LL_DELETE(wq, task): the list without that item (unchanged without it)
WqDelete(q, task) == SelectSeq(q, LAMBDA x : x # task)

\* vita_cb_loop: LL_DELETE under the lock, then the data callback is called.
\* Calling through an item that was freed is undefined: the callback of the
\* stale item runs (ok) or the process aborts.
CbTake(t, ok) ==
    /\ Alive
    /\ t \in 1..Len(thr)
    /\ thr[t].cb = "take"
    /\ (thr[t].task \notin task_freed) => ok
    /\ IF ok
       THEN /\ wq' = WqDelete(wq, thr[t].task)
            /\ executed' = Append(executed, thr[t].task)
            /\ thr' = [thr EXCEPT ![t].cb = "run"]
            /\ UNCHANGED ctl
       ELSE /\ ctl' = [ctl EXCEPT !.pc = "crashed"]
            /\ UNCHANGED <<wq, executed, thr>>
    /\ UNCHANGED <<dispvars, sequence, out, rq, snd, nsent, nentries, freed, cb_wq, calls, nframes,
                   active_slice, vita, wq_sem, wq_running, wq_thread, task_freed,
                   announced, nstatus, npkts>>

\* vita_cb_loop: the data callback returns, free(current_task).  Freeing an
\* item twice is undefined: the allocator lets it pass (ok) or aborts.
CbFinish(t, ok) ==
    /\ Alive
    /\ t \in 1..Len(thr)
    /\ thr[t].cb = "run"
    /\ (thr[t].task \notin task_freed) => ok
    /\ IF ok
       THEN /\ task_freed' = task_freed \cup {thr[t].task}
            /\ thr' = [thr EXCEPT ![t].cb = "top", ![t].task = 0]
            /\ UNCHANGED ctl
       ELSE /\ ctl' = [ctl EXCEPT !.pc = "crashed"]
            /\ UNCHANGED <<task_freed, thr>>
    /\ UNCHANGED <<dispvars, sequence, out, rq, snd, nsent, nentries, freed, cb_wq, calls, nframes,
                   active_slice, vita, wq, wq_sem, wq_running, wq_thread, executed,
                   announced, nstatus, npkts>>

\* radio_call_state_cb, run by a thread of the callback pool: the state
\* callback is called and the item freed
radio_call_state_cb(k) ==
    /\ Alive
    /\ k \in 1..Len(cb_wq)
    /\ k <= NPoolThreads
    /\ cb_wq[k].fn = "radio_call_state_cb"
    /\ cb_wq' = [j \in 1..(Len(cb_wq) - 1) |-> IF j < k THEN cb_wq[j] ELSE cb_wq[j + 1]]
    /\ UNCHANGED <<dispvars, sequence, out, rq, snd, nsent, nentries, freed, calls, nframes, vitavars>>

\* ------------------------------------------------------- control dispatch
\* waveform_register_cb: LL_APPEND of the new callback
waveform_register_cb(cb_list, name, cb) ==
    Append(cb_list, [name |-> name, cb |-> cb])

\* waveform_register_meter: LL_APPEND of a new meter unless one of that
\* name exists (calloc: id 0)
waveform_register_meter(meters, name, unit) ==
    IF \E i \in 1..Len(meters) : meters[i].name = name
    THEN meters
    ELSE Append(meters, [name |-> name, unit |-> unit, id |-> 0, value |-> -1])

\* the send function called by the control thread or a pool thread for a
\* list of commands, each with its completion callback ("" for NULL), one
\* after the other: the line is formatted with the sequence number and
\* handed to the transport, the response entry is added when there is a
\* callback, the sequence number is incremented.  (The steps of sends that
\* overlap are those of SendFormat .. SendReturn.)
RECURSIVE SendAll(_, _)
SendAll(cmds, st) ==
    IF cmds = <<>> THEN st
    ELSE LET c == Head(cmds)
             entry == [id |-> st.nentries + 1, sequence |-> st.sequence,
                       queued_cb |-> FALSE, line |-> st.sequence,
                       cb |-> c.cb, wf |-> c.wf, arg |-> c.arg]
         IN  SendAll(Tail(cmds),
                     [sequence |-> NextSeq(st.sequence),
                      out |-> Append(st.out, [seq |-> PrintU(st.sequence), body |-> c.body]),
                      rq |-> IF c.cb = "" THEN st.rq ELSE Append(st.rq, entry),
                      nentries |-> IF c.cb = "" THEN st.nentries ELSE st.nentries + 1])

\* a command sent without callback
Plain(w, text) == [wf |-> w, cb |-> "", arg |-> "", body |-> [cmd |-> text]]

\* waveform_create_meters: a "meter create" for each meter of the list
MeterCommands(w) ==
    [i \in 1..Len(meter_head[w]) |->
        [wf |-> w, cb |-> "register_meter_cb", arg |-> meter_head[w][i].name,
         body |-> [cmd |-> "meter create"]]]

RECURSIVE InitCommands(_)
\* the commands of radio_init from the waveform w of the list on: the
\* subscriptions once, then for each waveform its creation (with
\* radio_set_waveform_streams), its settings and its meters
InitCommands(w) ==
    IF w > NWaveforms THEN <<>>
    ELSE (IF w = 1
          THEN <<Plain(w, "sub slice all"), Plain(w, "sub radio all"),
                 Plain(w, "sub client all")>>
          ELSE <<>>)
         \o <<[wf |-> w, cb |-> "radio_set_waveform_streams", arg |-> "",
               body |-> [cmd |-> "waveform create"]],
              Plain(w, "waveform set tx=1"), Plain(w, "waveform set rx_filter"),
              Plain(w, "waveform set tx_filter")>>
         \o MeterCommands(w)
         \o InitCommands(w + 1)

\* radio_event_cb for BEV_EVENT_CONNECTED: radio_init
radio_init ==
    /\ ctl.pc = "connecting"
    /\ LET st == SendAll(InitCommands(1), [sequence |-> sequence, out |-> out,
                                           rq |-> rq, nentries |-> nentries])
       IN  /\ sequence' = st.sequence
           /\ out' = st.out
           /\ rq' = st.rq
           /\ nentries' = st.nentries
    /\ ctl' = CtlIdle
    /\ UNCHANGED <<dispvars, snd, nsent, freed, cb_wq, calls, nframes,
                   active_slice, vita, thr, wq, wq_sem, wq_running, wq_thread, task_freed,
                   executed, announced, nstatus, npkts>>

RECURSIVE AllStateItems(_, _)
\* the state items of the waveforms from w on, in the order of the list
AllStateItems(w, state) ==
    IF w > NWaveforms THEN <<>> ELSE StateItems(w, state) \o AllStateItems(w + 1, state)

\* interlock_state_change: the items added for the interlock state (none
\* for a state other than the two requests)
interlock_state_change(state) ==
    IF state \in {"PTT_REQUESTED", "UNKEY_REQUESTED"}
    THEN AllStateItems(1, state)
    ELSE <<>>

\* radio_process_line, case 'S', and process_status_message for a message
\* without a slice mode: the interlock state, then the items of the status
\* callbacks
process_status_line(message) ==
    /\ Alive
    /\ ctl.pc = "idle"
    /\ ~(message # <<>> /\ message[1] = Word("slice") /\ find_kwarg(message, "mode") # 0)
    /\ lines' = Append(lines, [type |-> "S", seq |-> <<>>, message |-> message])
    /\ IF message = <<>>
       THEN UNCHANGED cb_wq
       ELSE LET state == find_kwarg(message, "state")
                items == IF message[1] = Word("interlock") /\ state # 0
                         THEN interlock_state_change(message[state].val)
                         ELSE <<>>
            IN  cb_wq' = cb_wq \o items \o StatusItems(message)
    /\ UNCHANGED <<apivars, cmd_cbs, status_cbs, meter_head, streams, invoked,
                   sequence, out, rq, snd, nsent, nentries, freed, calls, nframes, vitavars>>

\* the cmd_cb_wq_desc items of one command: for each waveform whose
\* active_slice equals the number, one for each command callback whose name
\* is the verb, in the order of the lists
RECURSIVE CommandItems(_, _, _)
CommandItems(w, sequence_, message) ==
    IF w > NWaveforms THEN <<>>
    ELSE (IF StrToL(message[2].val) # active_slice[w]
          THEN <<>>
          ELSE LET match == SelectSeq(cmd_cbs[w], LAMBDA c : c.name = message[3].val)
               IN  [i \in 1..Len(match) |->
                      [fn |-> "radio_call_command_cb", wf |-> w, message |-> message,
                       cb |-> match[i], sequence |-> sequence_]])
         \o CommandItems(w + 1, sequence_, message)

\* radio_process_line, case 'C', and process_waveform_command
process_waveform_command(seqTok, message) ==
    /\ Alive
    /\ ctl.pc = "idle"
    /\ lines' = Append(lines, [type |-> "C", seq |-> seqTok, message |-> message])
    /\ IF NoDigits(seqTok, 10) \/ Len(message) < 3 \/ message[1] # Word("slice")
       THEN UNCHANGED cb_wq
       ELSE cb_wq' = cb_wq \o CommandItems(1, StrToUL(seqTok, 10), message)
    /\ UNCHANGED <<apivars, cmd_cbs, status_cbs, meter_head, streams, invoked,
                   sequence, out, rq, snd, nsent, nentries, freed, calls, nframes, vitavars>>

\* the offset of the codes a waveform answers with
ResponseBase == 1342177280

RECURSIVE PrintX(_)
\* printf("%x"): the hexadecimal digits of n, most significant first
PrintX(n) == IF n < 16 THEN <<n>> ELSE Append(PrintX(n \div 16), n % 16)

\* printf("%08x"): padded with zeros to eight digits
PrintX8(n) == LET d == PrintX(n) IN [i \in 1..(8 - Len(d)) |-> 0] \o d

\* printf("%d")
PrintD(n) == IF n < 0 THEN <<45>> \o PrintU(0 - n) ELSE PrintU(n)

\* an answer that forgets the offset
ResponseCode_NoOffset(ret) ==
    IF ret # 0 THEN PrintX8(ret) ELSE <<0>>

\* the code field of "waveform response": %08x of ret + 0x50000000, or 0
ResponseCode(ret) ==
    IF ret # 0 THEN PrintX8(ret + ResponseBase) ELSE <<0>>

\* what a command callback of the user may return
CbReturns == {0, 7, -1}

\* radio_call_command_cb, run by a thread of the callback pool: the command
\* callback is called with argc - 2 and argv + 2, then the answer is sent
\* with the sequence number of the command
radio_call_command_cb(k, ret) ==
    /\ Alive
    /\ k \in 1..Len(cb_wq)
    /\ k <= NPoolThreads
    /\ cb_wq[k].fn = "radio_call_command_cb"
    /\ LET desc == cb_wq[k]
           argv == desc.message
           argc == Len(argv)
           st == SendAll(<<[wf |-> desc.wf, cb |-> "", arg |-> "",
                            body |-> [cmd |-> "waveform response",
                                      seq |-> PrintD(desc.sequence),
                                      code |-> ResponseCode(ret)]]>>,
                         [sequence |-> sequence, out |-> out, rq |-> rq,
                          nentries |-> nentries])
       IN  IF argc < 1
           THEN UNCHANGED <<invoked, sequence, out>>
           ELSE /\ invoked' = Append(invoked,
                                     [fn |-> "cmd_cb", wf |-> desc.wf, cb |-> desc.cb,
                                      argc |-> argc - 2, argv |-> SubSeq(argv, 3, argc),
                                      message |-> desc.message, sequence |-> desc.sequence,
                                      ret |-> ret])
                /\ sequence' = st.sequence
                /\ out' = st.out
    /\ cb_wq' = [j \in 1..(Len(cb_wq) - 1) |-> IF j < k THEN cb_wq[j] ELSE cb_wq[j + 1]]
    /\ UNCHANGED <<apivars, cmd_cbs, status_cbs, meter_head, streams, lines,
                   rq, snd, nsent, nentries, freed, calls, nframes, vitavars>>

\* radio_call_status_cb, run by a thread of the callback pool: the status
\* callback is called with the tokens of the message
radio_call_status_cb(k) ==
    /\ Alive
    /\ k \in 1..Len(cb_wq)
    /\ k <= NPoolThreads
    /\ cb_wq[k].fn = "radio_call_status_cb"
    /\ LET desc == cb_wq[k]
           argv == desc.message
           argc == Len(argv)
       IN  invoked' = IF argc < 1 THEN invoked
                      ELSE Append(invoked,
                                  [fn |-> "status_cb", wf |-> desc.wf, cb |-> desc.cb,
                                   argc |-> argc, argv |-> argv,
                                   message |-> desc.message, sequence |-> 0, ret |-> 0])
    /\ cb_wq' = [j \in 1..(Len(cb_wq) - 1) |-> IF j < k THEN cb_wq[j] ELSE cb_wq[j + 1]]
    /\ UNCHANGED <<apivars, cmd_cbs, status_cbs, meter_head, streams, lines,
                   sequence, out, rq, snd, nsent, nentries, freed, calls, nframes, vitavars>>

\* waveform_create: active_slice = -1, the vita structure zeroed by calloc;
\* the statics of vita.c; no thread yet
InitVitaVars ==
    /\ active_slice = [w \in Waveforms |-> -1]
    /\ vita = [w \in Waveforms |-> [sock |-> 0, base |-> 0]]
    /\ thr = <<>>
    /\ wq = <<>>
    /\ wq_sem = 0
    /\ wq_running = FALSE
    /\ wq_thread = 0
    /\ task_freed = {}
    /\ executed = <<>>
    /\ ctl = CtlIdle
    /\ announced = [w \in Waveforms |-> "NONE"]
    /\ nstatus = 0
    /\ npkts = 0

\* the same before the control connection is established
InitCtlVitaVars ==
    /\ active_slice = [w \in Waveforms |-> -1]
    /\ vita = [w \in Waveforms |-> [sock |-> 0, base |-> 0]]
    /\ thr = <<>>
    /\ wq = <<>>
    /\ wq_sem = 0
    /\ wq_running = FALSE
    /\ wq_thread = 0
    /\ task_freed = {}
    /\ executed = <<>>
    /\ ctl = [CtlIdle EXCEPT !.pc = "connecting"]
    /\ announced = [w \in Waveforms |-> "NONE"]
    /\ nstatus = 0
    /\ npkts = 0

\* no meter packet sent, no API call made, the counter zeroed by calloc, no
\* discovery and no keyword search under way, no data packet read
InitApiVars ==
    /\ udp = <<>>
    /\ api = [n |-> 0, fn |-> "", name |-> "", value |-> Num(0, 0), ret |-> 0,
              crashed |-> FALSE]
    /\ meter_sequence = 0
    /\ disc = [pc |-> "none", addr |-> NullAddr, rcvd |-> <<>>, how |-> ""]
    /\ kw = [pc |-> "none", argv |-> <<>>, key |-> <<>>, found |-> FALSE, value |-> <<>>]
    /\ pkts = <<>>

\* a program that registers state callbacks only: no command callback, no
\* status callback, no meter; the stream ids zeroed by calloc
InitDispVars ==
    /\ cmd_cbs = [w \in Waveforms |-> <<>>]
    /\ status_cbs = [w \in Waveforms |-> <<>>]
    /\ meter_head = [w \in Waveforms |-> <<>>]
    /\ streams = [w \in Waveforms |-> [k \in StreamKeys |-> 0]]
    /\ invoked = <<>>
    /\ lines = <<>>
    /\ InitApiVars

\* ------------------------------------------------------------------ meters
\* value > bound and value < bound for a float value and a whole bound, as
\* the comparison of C does them: both are false for a NaN
FGt(value, bound) ==
    CASE value.k = "nan" -> FALSE
      [] value.k = "inf" -> value.n > 0
      [] OTHER -> value.n > bound * (2 ^ value.e)

FLt(value, bound) ==
    CASE value.k = "nan" -> FALSE
      [] value.k = "inf" -> value.n < 0
      [] OTHER -> value.n < bound * (2 ^ value.e)

\* round() of num / den: to the nearest whole number, halves away from zero
Round(num, den) ==
    IF num >= 0 THEN (2 * num + den) \div (2 * den)
    ELSE 0 - ((2 * (0 - num) + den) \div (2 * den))

\* the conversion of a whole number to short, for a number that fits in int
ToShort(x) == ((x + 32768) % 65536) - 32768

\* what the conversion of a NaN or of an infinity to short may give: the
\* conversion is undefined, the builds differ
UndefinedShorts == {0, -1, -32768}

\* float_to_fixed: (short) round(input * (1u << fractional_bits)); the set of
\* the values it may return
float_to_fixed(input, fractional_bits) ==
    IF input.k = "num"
    THEN {ToShort(Round(input.n * (2 ^ fractional_bits), 2 ^ input.e))}
    ELSE UndefinedShorts

\* units[]: the radix and the range of each unit
units ==
    [DB |-> [radix |-> 7, min |-> -255, max |-> 255],
     DBM |-> [radix |-> 7, min |-> -255, max |-> 255],
     DBFS |-> [radix |-> 7, min |-> -255, max |-> 255],
     VOLTS |-> [radix |-> 8, min |-> -127, max |-> 127],
     AMPS |-> [radix |-> 8, min |-> -127, max |-> 127],
     RPM |-> [radix |-> 0, min |-> -32768, max |-> 32767],
     TEMP_F |-> [radix |-> 6, min |-> -511, max |-> 511],
     TEMP_C |-> [radix |-> 6, min |-> -511, max |-> 511],
     SWR |-> [radix |-> 7, min |-> -255, max |-> 255],
     WATTS |-> [radix |-> 0, min |-> -32768, max |-> 32767],
     PERCENT |-> [radix |-> 0, min |-> -32768, max |-> 32767],
     NONE |-> [radix |-> 0, min |-> -32768, max |-> 32767]]

\* the waveform whose meters the user sets and sends
MeterWf == 1

\* find_meter_by_name: the index of the meter in the list, 0 for NULL
find_meter_by_name(name) ==
    LET meters == meter_head[MeterWf]
        found == {i \in 1..Len(meters) : meters[i].name = name}
    IN  IF found = {} THEN 0 ELSE CHOOSE i \in found : \A j \in found : i <= j

\* a call of the meter API returns: api holds the call and its return value
Returned(fn, name, value, ret) ==
    api' = [n |-> api.n + 1, fn |-> fn, name |-> name, value |-> value, ret |-> ret,
            crashed |-> FALSE]

\* waveform_meter_set_int_value: the raw short is stored
waveform_meter_set_int_value(name, value) ==
    /\ api.n < MaxApi
    /\ ~api.crashed
    /\ LET meter == find_meter_by_name(name)
       IN  IF meter = 0
           THEN /\ Returned("set_int", name, Num(value, 0), -1)
                /\ UNCHANGED meter_head
           ELSE /\ meter_head' = [meter_head EXCEPT ![MeterWf][meter].value = value]
                /\ Returned("set_int", name, Num(value, 0), 0)
    /\ UNCHANGED <<pkts, udp, meter_sequence, disc, kw, cmd_cbs, status_cbs, streams, invoked, lines,
                   sequence, out, rq, snd, nsent, nentries, freed, cb_wq, calls, nframes,
                   vitavars>>

\* waveform_meter_set_float_value: the range of the unit is checked, then
\* the fixed-point value is stored
waveform_meter_set_float_value(name, value) ==
    /\ api.n < MaxApi
    /\ ~api.crashed
    /\ LET meter == find_meter_by_name(name)
       IN  IF meter = 0
           THEN /\ Returned("set_float", name, value, -1)
                /\ UNCHANGED meter_head
           ELSE LET unit == units[meter_head[MeterWf][meter].unit]
                IN  IF FGt(value, unit.max) \/ FLt(value, unit.min)
                    THEN /\ Returned("set_float", name, value, -1)
                         /\ UNCHANGED meter_head
                    ELSE /\ \E fixed \in float_to_fixed(value, unit.radix) :
                                meter_head' = [meter_head EXCEPT
                                                  ![MeterWf][meter].value = fixed]
                         /\ Returned("set_float", name, value, 0)
    /\ UNCHANGED <<pkts, udp, meter_sequence, disc, kw, cmd_cbs, status_cbs, streams, invoked, lines,
                   sequence, out, rq, snd, nsent, nentries, freed, cb_wq, calls, nframes,
                   vitavars>>

RECURSIVE FillSlots(_, _, _)
\* the loop of waveform_meters_send from the meter at position pos on, with
\* the slots filled so far: the slots, the list and whether the loop ended
\* by the return of the size guard.  The guard lets i = MeterSlots pass, so
\* the slot after the last one of the array may be written.
FillSlots(meters, pos, slots) ==
    IF pos > Len(meters)
    THEN [slots |-> slots, meters |-> meters, failed |-> FALSE]
    ELSE IF Len(slots) > MeterSlots
    THEN [slots |-> slots, meters |-> meters, failed |-> TRUE]
    ELSE IF meters[pos].value # -1
    THEN FillSlots([meters EXCEPT ![pos].value = -1], pos + 1,
                   Append(slots, [id |-> meters[pos].id,
                                  value |-> meters[pos].value % 65536]))
    ELSE FillSlots(meters, pos + 1, slots)

\* waveform_meters_send: the counter is advanced, the slots are filled and
\* the packet is handed to vita_send_packet, whose return value is dropped.
\* A write after the array is undefined: the packet may go out with the
\* extra slot, or the corrupted heap may end the process.
waveform_meters_send ==
    /\ api.n < MaxApi
    /\ ~api.crashed
    /\ meter_sequence' = (meter_sequence + 1) % 256
    /\ LET r == FillSlots(meter_head[MeterWf], 1, <<>>)
           packet == [stream_id |-> "METER_STREAM_ID",
                      sequence |-> meter_sequence % 16,
                      length |-> Len(r.slots),
                      slots |-> r.slots]
       IN  /\ meter_head' = [meter_head EXCEPT ![MeterWf] = r.meters]
           /\ IF r.failed
              THEN /\ UNCHANGED udp
                   /\ Returned("send", "", Num(0, 0), -1)
              ELSE IF Len(r.slots) > MeterSlots
              THEN \/ /\ udp' = Append(udp, packet)
                      /\ Returned("send", "", Num(0, 0), 0)
                   \/ /\ UNCHANGED udp
                      /\ api' = [n |-> api.n + 1, fn |-> "send", name |-> "",
                                 value |-> Num(0, 0), ret |-> 0, crashed |-> TRUE]
              ELSE /\ udp' = Append(udp, packet)
                   /\ Returned("send", "", Num(0, 0), 0)
    /\ UNCHANGED <<pkts, disc, kw, cmd_cbs, status_cbs, streams, invoked, lines,
                   sequence, out, rq, snd, nsent, nentries, freed, cb_wq, calls, nframes,
                   vitavars>>

\* --------------------------------------------------------------- discovery
RECURSIVE AtonBytes(_, _)
\* the n low bytes of the number v, most significant first
AtonBytes(v, n) == IF n = 0 THEN <<>> ELSE Append(AtonBytes(v \div 256, n - 1), v % 256)

\* inet_aton: an address of one to four numbers separated by dots (given as
\* the list of the numbers); all but the last are bytes, the last fills the
\* bytes that remain (a single number is kept below 2^31 here).  <<>> stands
\* for the return value 0 (invalid).
inet_aton(ip) ==
    LET n == Len(ip)
        limit == <<2147483647, 16777216, 65536, 256>>
    IN  IF n \in 1..4 /\ (\A i \in 1..(n - 1) : ip[i] <= 255) /\ ip[n] < limit[n]
        THEN SubSeq(ip, 1, n - 1) \o AtonBytes(ip[n], 5 - n)
        ELSE <<>>

\* htons: the two bytes of the port, most significant first
htons(port) == <<(port \div 256) % 256, port % 256>>

\* waveform_discover_radio up to event_base_dispatch: the socket is opened
\* and bound and the two events are added; if one of these fails the call
\* returns NULL
waveform_discover_radio(failed) ==
    /\ disc.pc = "none"
    /\ disc' = IF failed
               THEN [pc |-> "returned", addr |-> NullAddr, rcvd |-> <<>>, how |-> "setup"]
               ELSE [pc |-> "listening", addr |-> NullAddr, rcvd |-> <<>>, how |-> ""]
    /\ UNCHANGED <<pkts, udp, api, meter_sequence, kw, cmd_cbs, status_cbs, meter_head, streams,
                   invoked, lines, sequence, out, rq, snd, nsent, nentries, freed, cb_wq,
                   calls, nframes, vitavars>>

\* discovery_cb: a packet is read from the discovery socket.  errno is not
\* cleared before strtoul, so the test of the port sees the errno an earlier
\* call has left (stale) or 0.
discovery_cb(packet, stale) ==
    /\ disc.pc = "listening"
    /\ Len(disc.rcvd) < MaxDisc
    /\ LET argv == packet.payload
           ip == find_kwarg(argv, "ip")
           port_string == find_kwarg(argv, "port")
           port == StrToUL(argv[port_string].val, 10)
           rcvd == Append(disc.rcvd, packet)
           ignored == [disc EXCEPT !.rcvd = rcvd, !.addr = NullAddr]
       IN  disc' =
             IF \/ packet.class_id # "DISCOVERY_CLASS_ID"
                \/ packet.packet_type # "EXT_DATA_WITH_STREAM_ID"
                \/ packet.stream_id # "DISCOVERY_STREAM_ID"
             THEN [disc EXCEPT !.rcvd = rcvd]
             ELSE IF ip = 0 \/ port_string = 0
             THEN [disc EXCEPT !.rcvd = rcvd]
             ELSE IF inet_aton(argv[ip].val) = <<>>
             THEN ignored
             ELSE IF stale /\ port = 0
             THEN ignored
             ELSE IF port > 65535
             THEN ignored
             ELSE [pc |-> "returned", rcvd |-> rcvd, how |-> "packet",
                   addr |-> [null |-> FALSE, sin_addr |-> inet_aton(argv[ip].val),
                             sin_port |-> htons(port)]]
    /\ UNCHANGED <<pkts, udp, api, meter_sequence, kw, cmd_cbs, status_cbs, meter_head, streams,
                   invoked, lines, sequence, out, rq, snd, nsent, nentries, freed, cb_wq,
                   calls, nframes, vitavars>>

\* timeout_cb: the address is set to NULL and the loop is left
timeout_cb ==
    /\ disc.pc = "listening"
    /\ disc' = [disc EXCEPT !.pc = "returned", !.addr = NullAddr, !.how = "timeout"]
    /\ UNCHANGED <<pkts, udp, api, meter_sequence, kw, cmd_cbs, status_cbs, meter_head, streams,
                   invoked, lines, sequence, out, rq, snd, nsent, nentries, freed, cb_wq,
                   calls, nframes, vitavars>>

\* ------------------------------------------------------ keyword arguments
\* a call of find_kwarg(argc, argv, key) with the tokens and the key as
\* their characters: the value found, or NULL
find_kwarg_call(argv, key) ==
    /\ kw.pc = "none"
    /\ LET kvps == [i \in 1..Len(argv) |-> Kvp(argv[i])]
           value == find_kwarg(kvps, key)
       IN  kw' = [pc |-> "returned", argv |-> argv, key |-> key,
                  found |-> value # 0,
                  value |-> IF value # 0 THEN kvps[value].val ELSE <<>>]
    /\ UNCHANGED <<pkts, udp, api, meter_sequence, disc, cmd_cbs, status_cbs, meter_head, streams,
                   invoked, lines, sequence, out, rq, snd, nsent, nentries, freed, cb_wq,
                   calls, nframes, vitavars>>

\* ------------------------------------------------------------ specification
\* radio->sequence starts at 0 (calloc); sends without callbacks bring it to
\* any value below 2^31 with everything else as at the start, so a run may
\* also begin just below the wrap.
Init ==
    /\ sequence \in {0, SeqMask}
    /\ InitVitaVars
    /\ InitDispVars
    /\ out = <<>>
    /\ rq = <<>>
    /\ snd = [t \in Senders |-> Idle]
    /\ nsent = 0
    /\ nentries = 0
    /\ freed = {}
    /\ cb_wq = <<>>
    /\ calls = EmptyBag
    /\ nframes = 0

Next ==
    \/ \E qcb \in BOOLEAN : SendFormat("user", TRUE, qcb)
    \/ \E cb \in BOOLEAN : SendFormat("pool", cb, FALSE)
    \/ \E t \in Senders : SendEmit(t)
    \/ \E t \in Senders : add_sequence_to_response_queue(t)
    \/ \E t \in Senders : SendLoad(t)
    \/ \E t \in Senders : SendStore(t)
    \/ \E t \in Senders : SendReturn(t)
    \/ \E tag \in {"R", "Q"}, s \in FrameSeqs, c \in FrameCodes, m \in FrameMsgs :
          RecvResponse(tag, s, c, m)
    \/ \E k \in 1..NPoolThreads, stale \in BOOLEAN : rq_call_cb(k, stale)

Spec == Init /\ [][Next]_vars

\* the data packets of a radio that streams the received audio of one slice
SlicePackets == {[kind |-> "audio", stream_id |-> 2]}

\* the slice state machine and the data plane, from a fresh radio connection
InitVita ==
    /\ sequence = 0
    /\ InitVitaVars
    /\ InitDispVars
    /\ out = <<>>
    /\ rq = <<>>
    /\ snd = [t \in Senders |-> Idle]
    /\ nsent = 0
    /\ nentries = 0
    /\ freed = {}
    /\ cb_wq = <<>>
    /\ calls = EmptyBag
    /\ nframes = 0

NextVita ==
    \/ \E tok \in SliceTokens, mode \in Modes : process_status_message(tok, mode)
    \/ mode_change
    \/ \E ok \in BOOLEAN : vita_destroy(ok)
    \/ \E t \in 1..MaxStatus : IoSocket(t)
    \/ \E t \in 1..MaxStatus : IoBase(t)
    \/ \E t \in 1..MaxStatus : IoSend(t)
    \/ \E t \in 1..MaxStatus, p \in SlicePackets : vita_read_cb(t, p)
    \/ \E t \in 1..MaxStatus : IoExit(t)
    \/ \E t \in 1..MaxStatus : CbStart(t)
    \/ \E t \in 1..MaxStatus : CbTop(t)
    \/ \E t \in 1..MaxStatus : CbWait(t)
    \/ \E t \in 1..MaxStatus : CbCheck(t)
    \/ \E t \in 1..MaxStatus, ok \in BOOLEAN : CbTake(t, ok)
    \/ \E t \in 1..MaxStatus, ok \in BOOLEAN : CbFinish(t, ok)
    \/ \E k \in 1..NPoolThreads : radio_call_state_cb(k)

SpecVita == InitVita /\ [][NextVita]_vars

\* the same with the end of the control connection and the destruction of
\* the radio; the radio sends status messages for slice 0
NextDown ==
    \/ \E tok \in {<<0>>}, mode \in Modes : process_status_message(tok, mode)
    \/ mode_change
    \/ \E ok \in BOOLEAN : vita_destroy(ok)
    \/ \E what \in {"BEV_EVENT_TIMEOUT", "BEV_EVENT_EOF", "BEV_EVENT_ERROR"} :
          radio_event_cb(what)
    \/ radio_evt_loop
    \/ waveform_radio_destroy
    \/ \E t \in 1..MaxStatus : IoSocket(t)
    \/ \E t \in 1..MaxStatus : IoBase(t)
    \/ \E t \in 1..MaxStatus : IoSend(t)
    \/ \E t \in 1..MaxStatus, p \in SlicePackets : vita_read_cb(t, p)
    \/ \E t \in 1..MaxStatus : IoExit(t)
    \/ \E t \in 1..MaxStatus : CbStart(t)
    \/ \E t \in 1..MaxStatus : CbTop(t)
    \/ \E t \in 1..MaxStatus : CbWait(t)
    \/ \E t \in 1..MaxStatus : CbCheck(t)
    \/ \E t \in 1..MaxStatus, ok \in BOOLEAN : CbTake(t, ok)
    \/ \E t \in 1..MaxStatus, ok \in BOOLEAN : CbFinish(t, ok)
    \/ \E k \in 1..NPoolThreads : radio_call_state_cb(k)

SpecDown == InitVita /\ [][NextDown]_vars

\* the control plane of a program that registers command callbacks, status
\* callbacks and a meter before it starts the radio (as example/main.c does):
\* the first waveform two callbacks for "set" around one for "get", a status
\* callback for "slice" and the meter "snr", the second waveform one
\* callback for "set"
InitCtl ==
    /\ sequence = 0
    /\ InitCtlVitaVars
    /\ out = <<>>
    /\ rq = <<>>
    /\ snd = [t \in Senders |-> Idle]
    /\ nsent = 0
    /\ nentries = 0
    /\ freed = {}
    /\ cb_wq = <<>>
    /\ calls = EmptyBag
    /\ nframes = 0
    /\ cmd_cbs = [w \in Waveforms |->
                    IF w = 1
                    THEN waveform_register_cb(
                             waveform_register_cb(
                                 waveform_register_cb(<<>>, "set", "c1"), "get", "c2"),
                             "set", "c3")
                    ELSE waveform_register_cb(<<>>, "set", "c4")]
    /\ status_cbs = [w \in Waveforms |->
                       IF w = 1 THEN waveform_register_cb(<<>>, "slice", "s1") ELSE <<>>]
    /\ meter_head = [w \in Waveforms |->
                       IF w = 1 THEN waveform_register_meter(<<>>, "snr", "DB") ELSE <<>>]
    /\ streams = [w \in Waveforms |-> [k \in StreamKeys |-> 0]]
    /\ invoked = <<>>
    /\ lines = <<>>
    /\ InitApiVars

\* what the radio may send on the control connection
CmdSeqs == {<<9, 9>>, <<5>>}
CmdSlices == {<<1>>, <<45, 1>>}
CmdVerbs == {"set", "tune"}
CmdLinesOf(slices) ==
    {<<Word("slice"), Word(n), Word(v), KeyVal("mode", "USB")>> : n \in slices, v \in CmdVerbs}
        \cup {<<Word("slice"), Word(<<1>>)>>}
CmdLines == CmdLinesOf(CmdSlices)
StatusLines ==
    {<<Word("interlock"), KeyVal("state", st)>> : st \in {"PTT_REQUESTED", "UNKEY_REQUESTED"}}
        \cup {<<Word("radio"), KeyVal("slices", "4")>>}
CtlMsgs == {<<Word(<<4, 2>>), KeyVal("tx_stream_in_id", <<1>>)>>}

\* the lines received so far
NLines == nframes + nstatus + Len(lines)

\* The data-plane threads take no step here (their steps are those of
\* SpecVita): vita.sock stays 0 and vita_destroy returns at once.
NextCtl ==
    \/ radio_init
    \/ \E mode \in Modes :
          NLines < MaxLines /\ process_status_message(<<1>>, mode)
    \/ mode_change
    \/ \E m \in StatusLines : NLines < MaxLines /\ process_status_line(m)
    \/ \E s \in CmdSeqs, m \in CmdLines :
          NLines < MaxLines /\ process_waveform_command(s, m)
    \/ \E i \in 1..Len(rq), c \in FrameCodes, m \in CtlMsgs :
          NLines < MaxLines /\ ctl.pc = "idle"
              /\ RecvResponse("R", PrintU(rq[i].sequence), c, m)
    \/ \E k \in 1..NPoolThreads, stale \in BOOLEAN : rq_call_cb(k, stale)
    \/ \E k \in 1..NPoolThreads : radio_call_state_cb(k)
    \/ \E k \in 1..NPoolThreads, ret \in CbReturns : radio_call_command_cb(k, ret)
    \/ \E k \in 1..NPoolThreads : radio_call_status_cb(k)

SpecCtl == InitCtl /\ [][NextCtl]_vars

\* the commands of a radio that names its slices by their numbers: slice
\* status messages and commands are received, the pool runs the callbacks
\* and answers
NextCmd ==
    \/ radio_init
    \/ \E mode \in Modes :
          NLines < MaxLines /\ process_status_message(<<1>>, mode)
    \/ mode_change
    \/ \E s \in CmdSeqs, m \in CmdLinesOf({<<0>>, <<1>>}) :
          NLines < MaxLines /\ process_waveform_command(s, m)
    \/ \E k \in 1..NPoolThreads : radio_call_state_cb(k)
    \/ \E k \in 1..NPoolThreads, ret \in CbReturns : radio_call_command_cb(k, ret)
    \/ \E k \in 1..NPoolThreads : radio_call_status_cb(k)

SpecCmd == InitCtl /\ [][NextCmd]_vars

\* A program that has registered more meters than a packet has slots; the
\* radio has answered each "meter create" with an id.  One meter of each
\* radix.
MeterNames == <<"m1", "m2", "m3", "m4", "m5">>
MeterUnits == <<"DB", "VOLTS", "RPM", "TEMP_C", "DBM">>
NMeters == MeterSlots + 2

RECURSIVE RegisteredMeters(_)
RegisteredMeters(n) ==
    IF n = 0 THEN <<>>
    ELSE register_meter_cb(
             waveform_register_meter(RegisteredMeters(n - 1), MeterNames[n], MeterUnits[n]),
             0, <<Word(PrintU(41 + n))>>, MeterNames[n])

InitMeter ==
    /\ sequence = 0
    /\ InitVitaVars
    /\ out = <<>>
    /\ rq = <<>>
    /\ snd = [t \in Senders |-> Idle]
    /\ nsent = 0
    /\ nentries = 0
    /\ freed = {}
    /\ cb_wq = <<>>
    /\ calls = EmptyBag
    /\ nframes = 0
    /\ cmd_cbs = [w \in Waveforms |-> <<>>]
    /\ status_cbs = [w \in Waveforms |-> <<>>]
    /\ meter_head = [w \in Waveforms |->
                       IF w = MeterWf THEN RegisteredMeters(NMeters) ELSE <<>>]
    /\ streams = [w \in Waveforms |-> [k \in StreamKeys |-> 0]]
    /\ invoked = <<>>
    /\ lines = <<>>
    /\ InitApiVars

\* the arguments of the user's calls: a meter of the list or a name that is
\* not registered; raw values; -12.5, -1/256, 255.5 and a NaN
SetNames == {MeterNames[i] : i \in 1..NMeters} \cup {"none"}
IntInputs == {-1, 5}
FloatInputs == {Num(-25, 1), Num(-1, 8), Num(511, 1), NaN}

NextMeter ==
    \/ \E name \in SetNames, value \in IntInputs : waveform_meter_set_int_value(name, value)
    \/ \E name \in SetNames, value \in FloatInputs :
          waveform_meter_set_float_value(name, value)
    \/ waveform_meters_send

SpecMeter == InitMeter /\ [][NextMeter]_vars

\* a call of waveform_discover_radio in a program that does nothing else
InitDiscovery ==
    /\ sequence = 0
    /\ InitVitaVars
    /\ InitDispVars
    /\ out = <<>>
    /\ rq = <<>>
    /\ snd = [t \in Senders |-> Idle]
    /\ nsent = 0
    /\ nentries = 0
    /\ freed = {}
    /\ cb_wq = <<>>
    /\ calls = EmptyBag
    /\ nframes = 0

\* what may arrive on the discovery port: the packets of two radios, packets
\* of another class, type or stream, and discovery packets without ip or
\* port, with the ip 10.0.0.256, with the ports 70000 and "abc" (the letters
\* as their values in base 16)
DiscPacket(class_id, packet_type, stream_id, payload) ==
    [class_id |-> class_id, packet_type |-> packet_type, stream_id |-> stream_id,
     payload |-> payload]

Discovery(payload) ==
    DiscPacket("DISCOVERY_CLASS_ID", "EXT_DATA_WITH_STREAM_ID", "DISCOVERY_STREAM_ID", payload)

RadioPayload(ip, port) ==
    <<KeyVal("model", "FLEX-6600"), KeyVal("ip", ip), KeyVal("port", port)>>

DiscPackets ==
    {Discovery(RadioPayload(<<10, 0, 0, 1>>, <<4, 9, 9, 2>>)),
     Discovery(RadioPayload(<<10, 0, 0, 2>>, <<4, 9, 9, 3>>)),
     DiscPacket("METER_CLASS_ID", "EXT_DATA_WITH_STREAM_ID", "DISCOVERY_STREAM_ID",
                RadioPayload(<<10, 0, 0, 3>>, <<4, 9, 9, 2>>)),
     DiscPacket("DISCOVERY_CLASS_ID", "IF_DATA_WITH_STREAM_ID", "DISCOVERY_STREAM_ID",
                RadioPayload(<<10, 0, 0, 3>>, <<4, 9, 9, 2>>)),
     DiscPacket("DISCOVERY_CLASS_ID", "EXT_DATA_WITH_STREAM_ID", "METER_STREAM_ID",
                RadioPayload(<<10, 0, 0, 3>>, <<4, 9, 9, 2>>)),
     Discovery(<<KeyVal("model", "FLEX-6600"), KeyVal("port", <<4, 9, 9, 2>>)>>),
     Discovery(<<KeyVal("model", "FLEX-6600"), KeyVal("ip", <<10, 0, 0, 3>>)>>),
     Discovery(RadioPayload(<<10, 0, 0, 256>>, <<4, 9, 9, 2>>)),
     Discovery(RadioPayload(<<10, 0, 0, 3>>, <<7, 0, 0, 0, 0>>)),
     Discovery(RadioPayload(<<10, 0, 0, 3>>, <<10, 11, 12>>))}

NextDiscovery ==
    \/ \E failed \in BOOLEAN : waveform_discover_radio(failed)
    \/ \E packet \in DiscPackets, stale \in BOOLEAN : discovery_cb(packet, stale)
    \/ timeout_cb

SpecDiscovery == InitDiscovery /\ [][NextDiscovery]_vars

\* calls of find_kwarg: the tokens slice, status, mode=USB, mode=LSB,
\* level=, mode=USB=x and the empty token in any order, the keys mode, level
\* and slice
KwTokens ==
    {<<"s", "l", "i", "c", "e">>,
     <<"s", "t", "a", "t", "u", "s">>,
     <<"m", "o", "d", "e", "=", "U", "S", "B">>,
     <<"m", "o", "d", "e", "=", "L", "S", "B">>,
     <<"l", "e", "v", "e", "l", "=">>,
     <<"m", "o", "d", "e", "=", "U", "S", "B", "=", "x">>,
     <<>>}

KwKeys == {<<"m", "o", "d", "e">>, <<"l", "e", "v", "e", "l">>, <<"s", "l", "i", "c", "e">>}

KwArgvs == UNION {[1..n -> KwTokens] : n \in 0..MaxArgs}

NextKw == \E argv \in KwArgvs, key \in KwKeys : find_kwarg_call(argv, key)

SpecKw == InitDiscovery /\ [][NextKw]_vars

\* the data packets the radio or any host may send to the data socket: audio
\* of both directions with two stream ids each, bytes of the transmit
\* direction with two stream ids, another class, and a
\* packet that fails the header tests
DataPackets ==
    {[kind |-> "audio", stream_id |-> i] : i \in 0..3}
        \cup {[kind |-> "byte", stream_id |-> 1],
              [kind |-> "byte", stream_id |-> 3],
              [kind |-> "unknown", stream_id |-> 0],
              [kind |-> "invalid", stream_id |-> 0]}

\* the data plane of one waveform: the radio puts slice 0 into the mode of
\* waveform 1 or into a mode of its own, and the data socket receives any
\* of the data packets
NextData ==
    \/ \E mode \in {"M1", "USB"} : process_status_message(<<0>>, mode)
    \/ mode_change
    \/ \E ok \in BOOLEAN : vita_destroy(ok)
    \/ \E t \in 1..MaxStatus : IoSocket(t)
    \/ \E t \in 1..MaxStatus : IoBase(t)
    \/ \E t \in 1..MaxStatus : IoSend(t)
    \/ \E t \in 1..MaxStatus, p \in DataPackets : vita_read_cb(t, p)
    \/ \E t \in 1..MaxStatus : IoExit(t)
    \/ \E t \in 1..MaxStatus : CbStart(t)
    \/ \E t \in 1..MaxStatus : CbTop(t)
    \/ \E t \in 1..MaxStatus : CbWait(t)
    \/ \E t \in 1..MaxStatus : CbCheck(t)
    \/ \E t \in 1..MaxStatus, ok \in BOOLEAN : CbTake(t, ok)
    \/ \E t \in 1..MaxStatus, ok \in BOOLEAN : CbFinish(t, ok)
    \/ \E k \in 1..NPoolThreads : radio_call_state_cb(k)

SpecData == InitVita /\ [][NextData]_vars

\* the same with the scheduling of the threads: the control thread and every
\* thread that vita_init created keep taking their steps as long as they have
\* one to take (the operating system starves no thread, and the user's data
\* callbacks return)
FairData ==
    /\ SpecData
    /\ WF_vars(mode_change)
    /\ WF_vars(\E ok \in BOOLEAN : vita_destroy(ok))
    /\ \A t \in 1..MaxStatus :
          /\ WF_vars(IoSocket(t) \/ IoBase(t) \/ IoSend(t) \/ IoExit(t))
          /\ WF_vars(CbStart(t) \/ CbTop(t) \/ CbWait(t) \/ CbCheck(t)
                         \/ (\E ok \in BOOLEAN : CbTake(t, ok))
                         \/ (\E ok \in BOOLEAN : CbFinish(t, ok)))

\* ------------------------------------------------------------------ claims
\* the number after n in a 31-bit counter
Succ31(n) == IF n = SeqMask THEN 0 ELSE n + 1

\* the value of an 8-digit hexadecimal field
Hex8(tok) ==
    ((((((tok[1] * 16 + tok[2]) * 16 + tok[3]) * 16 + tok[4]) * 16 + tok[5]) * 16
        + tok[6]) * 16 + tok[7]) * 16 + tok[8]

\* the decimal value of an emitted sequence field
RECURSIVE Dec(_)
Dec(tok) == IF tok = <<>> THEN 0 ELSE Dec(SubSeq(tok, 1, Len(tok) - 1)) * 10 + tok[Len(tok)]

\* the calls made for entry e with a callback of the given type
CallsOf(e, type) ==
    LET recs == {c \in BagToSet(calls) : c.entry = e /\ c.type = type}
        RECURSIVE Sum(_)
        Sum(S) == IF S = {} THEN 0
                  ELSE LET c == CHOOSE c \in S : TRUE IN CopiesIn(c, calls) + Sum(S \ {c})
    IN  Sum(recs)

\* the items of the callback queue that refer to entry e with the given type
PendingOf(e, type) ==
    Cardinality({k \in 1..Len(cb_wq) : cb_wq[k].rq_entry.id = e /\ cb_wq[k].type = type})

InRq(e) == \E j \in 1..Len(rq) : rq[j].id = e

\* C1: the sequence numbers of the emitted lines are consecutive modulo 2^31
\* in the order of emission, and bit 31 of the counter is always clear.
C1_ConsecutiveSequences ==
    /\ sequence >= 0 /\ sequence <= SeqMask
    /\ \A i \in 1..(Len(out) - 1) : Dec(out[i + 1]) = Succ31(Dec(out[i]))

\* C2: with several threads sending, no two emitted lines carry the same
\* sequence number and no number is skipped (every line but the first carries
\* the successor of the number of a line emitted before it).
C2_SendsSerialized ==
    /\ \A i, j \in 1..Len(out) : i # j => out[i] # out[j]
    /\ \A i \in 2..Len(out) : \E j \in 1..(i - 1) : Dec(out[i]) = Succ31(Dec(out[j]))

\* C3: an R frame for a sequence that has an entry removes that entry (and
\* only it) and schedules one completion item with the frame's code and
\* message; the item, when it runs, invokes the completion callback once with
\* that code and message on an entry that is still allocated; no entry ever
\* gets a second completion, and a completed entry is not in the queue.
C3_FrameStep ==
    \A s \in FrameSeqs, c \in FrameCodes, m \in FrameMsgs :
        (nframes' # nframes /\ RecvResponse("R", s, c, m) /\ (\E j \in 1..Len(rq) : rq[j].sequence = Dec(s))) =>
            LET i == CHOOSE i \in 1..Len(rq) :
                        rq[i].sequence = Dec(s) /\ \A j \in 1..(i - 1) : rq[j].sequence # Dec(s)
                e == rq[i]
            IN  /\ Len(rq') = Len(rq) - 1
                /\ \A j \in 1..Len(rq') : rq'[j].id # e.id
                /\ \A j \in 1..Len(rq) : j # i => \E l \in 1..Len(rq') : rq'[l] = rq[j]
                /\ cb_wq' = Append(cb_wq, [fn |-> "rq_call_cb", type |-> "CMD_CB_COMPLETE",
                                           code |-> Hex8(c), message |-> m, rq_entry |-> e])

C3_ItemStep ==
    \A k \in 1..NPoolThreads, stale \in BOOLEAN :
        (Len(cb_wq') < Len(cb_wq) /\ rq_call_cb(k, stale) /\ cb_wq[k].type = "CMD_CB_COMPLETE") =>
            /\ cb_wq[k].rq_entry.id \notin freed
            /\ calls' = calls (+) SetToBag({[entry |-> cb_wq[k].rq_entry.id,
                                             type |-> "CMD_CB_COMPLETE",
                                             code |-> cb_wq[k].code,
                                             message |-> cb_wq[k].message]})

C3_Once ==
    \A e \in 1..nentries :
        /\ CallsOf(e, "CMD_CB_COMPLETE") + PendingOf(e, "CMD_CB_COMPLETE") <= 1
        /\ CallsOf(e, "CMD_CB_COMPLETE") + PendingOf(e, "CMD_CB_COMPLETE") = 1 => ~InRq(e)

C3_CompletionOnce == [][C3_FrameStep /\ C3_ItemStep]_vars /\ []C3_Once

\* C3's case: the reply R0|00000000|ok to a command sent as C0 has been
\* delivered: its callback was called with code 0 and "ok", the entry is gone.
C3_Witness ==
    /\ Len(out) > 0 /\ Dec(out[1]) = 0
    /\ \E e \in 1..nentries :
          /\ CopiesIn([entry |-> e, type |-> "CMD_CB_COMPLETE", code |-> 0, message |-> "ok"],
                      calls) = 1
          /\ ~InRq(e)
          /\ e \in freed

\* C4: a Q frame with code 0 for a sequence that has an entry leaves the
\* entry in the queue and schedules the queued callback; the R frame that
\* follows removes it; each of the two callbacks is invoked exactly once:
\* the queued item of an entry that has a queued callback invokes it when it
\* runs, the completion item invokes the completion callback.
C4_QueuedStep ==
    \A s \in FrameSeqs, c \in FrameCodes, m \in FrameMsgs :
        (RecvResponse("Q", s, c, m) /\ Hex8(c) = 0
            /\ (\E j \in 1..Len(rq) : rq[j].sequence = Dec(s))) =>
                /\ rq' = rq
                /\ Len(cb_wq') = Len(cb_wq) + 1
                /\ cb_wq'[Len(cb_wq')].type = "CMD_CB_QUEUED"

C4_ItemStep ==
    \A k \in 1..NPoolThreads, stale \in BOOLEAN :
        (rq_call_cb(k, stale) /\ (cb_wq[k].type = "CMD_CB_QUEUED" => cb_wq[k].rq_entry.queued_cb)) =>
            calls' = calls (+) SetToBag({[entry |-> cb_wq[k].rq_entry.id,
                                          type |-> cb_wq[k].type,
                                          code |-> cb_wq[k].code,
                                          message |-> cb_wq[k].message]})

C4_QueuedThenComplete == [][C4_QueuedStep /\ C4_ItemStep]_vars

\* C5: a Q frame with a non-zero code for a sequence that has an entry
\* schedules the queued callback and removes the entry: afterwards the
\* response queue holds no entry of that sequence.
C5_FailedQueueStep ==
    \A s \in FrameSeqs, c \in FrameCodes, m \in FrameMsgs :
        (RecvResponse("Q", s, c, m) /\ Hex8(c) # 0
            /\ (\E j \in 1..Len(rq) : rq[j].sequence = Dec(s))) =>
                /\ Len(cb_wq') = Len(cb_wq) + 1
                /\ cb_wq'[Len(cb_wq')].type = "CMD_CB_QUEUED"
                /\ \A j \in 1..Len(rq') : rq'[j].sequence # Dec(s)

C5_FailedQueueRemoves == [][C5_FailedQueueStep]_vars

\* the waveform the control thread is at in mode_change
CurWf == ctl.w

\* the threads of the data-plane loops started for waveform w
ThreadsOf(w) == {t \in 1..Len(thr) : thr[t].wf = w}

\* C6: a status with the waveform's mode for a slice other than the one the
\* waveform is active on is a no-op: active_slice stays, no ACTIVE item is
\* scheduled and no data-plane loop is started.
C6_SecondSliceStep ==
    (mode_change /\ announced[CurWf] = "ACTIVE" /\ short_name[CurWf] = ctl.mode
        /\ active_slice[CurWf] # ctl.slice) =>
            /\ active_slice' = active_slice
            /\ cb_wq' = cb_wq
            /\ thr' = thr

C6_OneActiveSlice == [][C6_SecondSliceStep]_vars

\* C7: a status "slice n mode=m" with m the short name of an inactive
\* waveform makes it active on n (active_slice = n), schedules ACTIVE for
\* every state callback and starts the data-plane loop.
C7_ActivateStep ==
    (mode_change /\ announced[CurWf] # "ACTIVE" /\ short_name[CurWf] = ctl.mode) =>
        /\ active_slice'[CurWf] = ctl.n
        /\ Len(cb_wq') = Len(cb_wq) + Len(state_cbs)
        /\ \A i \in 1..Len(state_cbs) :
              LET item == cb_wq'[Len(cb_wq) + i]
              IN  item.wf = CurWf /\ item.state = "ACTIVE" /\ item.cb = state_cbs[i]
        /\ Len(thr') = Len(thr) + 1
        /\ thr'[Len(thr')].wf = CurWf

C7_Activation == [][C7_ActivateStep]_vars

\* C8: a status "slice n mode=m" for a waveform active on n, with m not its
\* short name, makes it inactive and schedules INACTIVE for every state
\* callback; once vita_destroy has returned, every consumer started for the
\* waveform has ended and every I/O thread started for it has ended or has
\* been asked to leave its loop.
C8_DeactivateStep ==
    (mode_change /\ announced[CurWf] = "ACTIVE" /\ active_slice[CurWf] = ctl.slice
        /\ short_name[CurWf] # ctl.mode) =>
            /\ active_slice'[CurWf] = -1
            /\ Len(cb_wq') = Len(cb_wq) + Len(state_cbs)
            /\ \A i \in 1..Len(state_cbs) :
                  LET item == cb_wq'[Len(cb_wq) + i]
                  IN  item.wf = CurWf /\ item.state = "INACTIVE" /\ item.cb = state_cbs[i]

C8_Destroyed ==
    \A w \in Waveforms :
        (announced[w] = "INACTIVE" /\ ~(ctl.pc = "join" /\ CurWf = w)) =>
            \A t \in ThreadsOf(w) :
                thr[t].cb = "done" /\ (thr[t].io = "done" \/ thr[t].exit)

C8_Deactivation == [][C8_DeactivateStep]_vars /\ []C8_Destroyed

\* C9: the data work items are executed in the order they were enqueued:
\* the callbacks begin in increasing order of enqueueing, none twice.
C9_EnqueueOrder ==
    \A i, j \in 1..Len(executed) : i < j => executed[i] < executed[j]

\* C10: at any instant at most one data work item is being executed.
C10_OneItemAtATime ==
    Cardinality({t \in 1..Len(thr) : thr[t].cb = "run"}) <= 1

\* C11: once the radio has been destroyed no work item is executed any
\* more: no data callback begins and no item of the callback queue is run
\* (the control thread has returned by then).
C11_DestroyedStep ==
    ctl.pc = "destroyed" =>
        /\ executed' = executed
        /\ Len(cb_wq') >= Len(cb_wq)
        /\ \A t \in 1..Len(thr) : thr[t].cb # "run"

C11_NothingAfterDestroy == [][C11_DestroyedStep]_vars

\* C12: when the control thread has returned after the end of the control
\* connection, every consumer has ended and every I/O thread has ended or has
\* been asked to leave its loop.
C12_TornDownAtReturn ==
    ctl.pc \in {"returned", "destroyed"} =>
        \A t \in 1..Len(thr) :
            thr[t].cb = "done" /\ (thr[t].io = "done" \/ thr[t].exit)

\* the line received in this step, when one is received
NewLine == lines'[Len(lines')]

\* the items added to the callback queue in this step
NewItems == SubSeq(cb_wq', Len(cb_wq) + 1, Len(cb_wq'))

\* the number a slice token stands for
SliceNumber(tok) == IF Head(tok) = 45 THEN 0 - Dec(Tail(tok)) ELSE Dec(tok)

\* a command of the form  C<seq>|slice <n> <verb> ...  is received in this step
CommandStep ==
    /\ Len(lines') = Len(lines) + 1
    /\ NewLine.type = "C"
    /\ Len(NewLine.message) >= 3
    /\ NewLine.message[1] = Word("slice")

\* C13: when the command  C<seq>|slice <n> <verb> ...  is received, the
\* command callbacks scheduled are exactly those registered under the verb
\* on the waveforms that are active on slice n, each once: none with another
\* name, none on a waveform that is inactive or active on another slice.
C13_DispatchStep ==
    CommandStep =>
        LET n == SliceNumber(NewLine.message[2].val)
            verb == NewLine.message[3].val
            expected == {<<w, c>> \in Waveforms \X {"c1", "c2", "c3", "c4"} :
                            /\ announced[w] = "ACTIVE"
                            /\ active_slice[w] = n
                            /\ \E i \in 1..Len(cmd_cbs[w]) :
                                  cmd_cbs[w][i].cb = c /\ cmd_cbs[w][i].name = verb}
        IN  /\ \A i \in 1..Len(NewItems) : NewItems[i].fn = "radio_call_command_cb"
            /\ {<<NewItems[i].wf, NewItems[i].cb.cb>> : i \in 1..Len(NewItems)} = expected
            /\ Len(NewItems) = Cardinality(expected)

C13_ExactDispatch == [][C13_DispatchStep]_vars

\* the answers emitted so far and the command callbacks called so far, both
\* in the order they happened
Responses == SelectSeq(out, LAMBDA l : l.body.cmd = "waveform response")
CmdCalls == SelectSeq(invoked, LAMBDA c : c.fn = "cmd_cb")

\* C14: each command callback that has returned is followed by one answer
\* "waveform response s|c" where s is the sequence field of the command line
\* of the radio the callback was called for, and c is 0 when the callback
\* returned 0 and the eight hexadecimal digits of v + 0x50000000 when it
\* returned v # 0 (50000007 for v = 7).
C14_Response ==
    /\ Len(Responses) = Len(CmdCalls)
    /\ \A i \in 1..Len(CmdCalls) :
          LET r == Responses[i].body
              c == CmdCalls[i]
          IN  /\ \E j \in 1..Len(lines) :
                    /\ lines[j].type = "C"
                    /\ lines[j].message = c.message
                    /\ r.seq = lines[j].seq
              /\ IF c.ret = 0
                 THEN r.code = <<0>>
                 ELSE Len(r.code) = 8 /\ Hex8(r.code) = c.ret + 1342177280
              /\ (c.ret = 7) => r.code = <<5, 0, 0, 0, 0, 0, 0, 7>>

\* C14's case: the "set" callback of the waveform active on slice 1 was
\* called for the command C99|slice 1 set mode=USB and returned 7, and
\* "waveform response 99|50000007" was emitted; another callback returned 0
\* and "waveform response 99|0" was emitted.
C14_Witness ==
    /\ \E i \in 1..Len(CmdCalls) :
          /\ CmdCalls[i].ret = 7
          /\ CmdCalls[i].wf = 1 /\ announced[1] = "ACTIVE" /\ active_slice[1] = 1
          /\ CmdCalls[i].message[2].val = <<1>>
          /\ Responses[i].body.seq = <<9, 9>>
          /\ Responses[i].body.code = <<5, 0, 0, 0, 0, 0, 0, 7>>
    /\ \E i \in 1..Len(CmdCalls) :
          /\ CmdCalls[i].ret = 0
          /\ Responses[i].body.seq = <<9, 9>>
          /\ Responses[i].body.code = <<0>>

\* the status "interlock state=PTT_REQUESTED" or "interlock
\* state=UNKEY_REQUESTED" is received in this step
InterlockStep ==
    /\ Len(lines') = Len(lines) + 1
    /\ NewLine.type = "S"
    /\ NewLine.message[1] = Word("interlock")
    /\ NewLine.message[2].key = "state"
    /\ NewLine.message[2].val \in {"PTT_REQUESTED", "UNKEY_REQUESTED"}

\* C15: when the interlock reports PTT_REQUESTED (or UNKEY_REQUESTED), every
\* state callback of every active waveform is scheduled once with that
\* state, and no state callback of a waveform that is not active is
\* scheduled.
C15_InterlockActive ==
    InterlockStep =>
        LET state == NewLine.message[2].val
            items == SelectSeq(NewItems, LAMBDA x : x.fn = "radio_call_state_cb")
        IN  /\ \A w \in Waveforms : announced[w] = "ACTIVE" =>
                  \A c \in 1..Len(state_cbs) :
                      Cardinality({i \in 1..Len(items) :
                                      /\ items[i].wf = w
                                      /\ items[i].cb = state_cbs[c]
                                      /\ items[i].state = state}) = 1
            /\ \A i \in 1..Len(items) :
                  announced[items[i].wf] = "ACTIVE" /\ items[i].state = state

C15_InterlockToActive == [][C15_InterlockActive]_vars

\* a status line is received and handled to the end in this step
StatusStep ==
    /\ Len(lines') = Len(lines) + 1
    /\ NewLine.type = "S"
    /\ NewLine.message # <<>>

\* C16: the status callbacks scheduled for a status line are exactly those
\* registered, on any waveform, under the first token of the status body,
\* each once; a status callback registered under another name is not
\* scheduled.
C16_StatusStep ==
    StatusStep =>
        LET name == NewLine.message[1].val
            items == SelectSeq(NewItems, LAMBDA x : x.fn = "radio_call_status_cb")
            expected == UNION {{<<w, i>> : i \in {j \in 1..Len(status_cbs[w]) :
                                                     status_cbs[w][j].name = name}} :
                               w \in Waveforms}
        IN  /\ \A i \in 1..Len(items) :
                  items[i].cb.name = name /\ items[i].message = NewLine.message
            /\ Len(items) = Cardinality(expected)

C16_StatusByKey == [][C16_StatusStep]_vars

\* the place of a callback in the list cmd_cbs of its waveform
RegIndex(w, cb) == CHOOSE i \in 1..Len(cmd_cbs[w]) : cmd_cbs[w][i] = cb

\* the command lines received so far that read as the call c was made for
LinesOf(c) == {j \in 1..Len(lines) :
                  /\ lines[j].type = "C"
                  /\ lines[j].message = c.message
                  /\ Dec(lines[j].seq) = c.sequence}

WithoutItem(k) == [j \in 1..(Len(cb_wq) - 1) |-> IF j < k THEN cb_wq[j] ELSE cb_wq[j + 1]]

\* the item of a final response with a non-zero code is run in this step
FailedCompletion(k) ==
    /\ k \in 1..Len(cb_wq)
    /\ cb_wq[k].fn = "rq_call_cb"
    /\ cb_wq[k].type = "CMD_CB_COMPLETE"
    /\ cb_wq[k].code # 0
    /\ cb_wq' = WithoutItem(k)
    /\ freed' = freed \cup {cb_wq[k].rq_entry.id}
    /\ freed' # freed

\* C18: a final response with a non-zero code takes the entry out of the
\* response queue and changes nothing else of the engine; running its item
\* calls the completion callback with the code and the message and leaves
\* the stream ids, the meter lists and the slice state as they were.
C18_FailedStep ==
    /\ (nframes' # nframes) =>
          /\ streams' = streams
          /\ meter_head' = meter_head
          /\ active_slice' = active_slice
    /\ \A k \in 1..NPoolThreads : FailedCompletion(k) =>
          /\ streams' = streams
          /\ meter_head' = meter_head
          /\ active_slice' = active_slice
          /\ rq' = rq

C18_FailureChangesNothing == [][C18_FailedStep]_vars

\* the lines sent to the radio in this step
NewOut == SubSeq(out', Len(out) + 1, Len(out'))

\* C19: when the command  C<seq>|slice <n> <verb> ...  addresses a waveform
\* active on slice n and no command callback is registered under the verb on
\* such a waveform, the radio is sent an answer "waveform response <seq>|c"
\* with an error code c # 0 for that sequence.
C19_UnhandledStep ==
    CommandStep =>
        LET n == SliceNumber(NewLine.message[2].val)
            verb == NewLine.message[3].val
            addressed == {w \in Waveforms : announced[w] = "ACTIVE" /\ active_slice[w] = n}
        IN  (/\ addressed # {}
             /\ \A w \in addressed : \A i \in 1..Len(cmd_cbs[w]) : cmd_cbs[w][i].name # verb)
                => \E i \in 1..Len(NewOut) :
                      /\ NewOut[i].body.cmd = "waveform response"
                      /\ NewOut[i].body.seq = NewLine.seq
                      /\ NewOut[i].body.code # <<0>>

C19_ErrorWhenUnhandled == [][C19_UnhandledStep]_vars

MeterCall(fn) == api'.n = api.n + 1 /\ api'.fn = fn

\* the meters of the list whose value is set, as slots in the order of the list
RECURSIVE SetSlots(_)
SetSlots(meters) ==
    IF meters = <<>> THEN <<>>
    ELSE IF Head(meters).value # -1
    THEN <<[id |-> Head(meters).id, value |-> Head(meters).value % 65536]>>
             \o SetSlots(Tail(meters))
    ELSE SetSlots(Tail(meters))

\* C21: waveform_meters_send emits one meter packet whose slots are exactly
\* the meters whose value is set and resets each of them, and a meter that
\* was set with success is a meter whose value is set: so a value set once
\* goes out in exactly one packet, the next one, and not again until the
\* meter is set again.
C21_SendStep ==
    /\ MeterCall("send") =>
          /\ Len(udp') = Len(udp) + 1
          /\ udp'[Len(udp')].stream_id = "METER_STREAM_ID"
          /\ udp'[Len(udp')].slots = SetSlots(meter_head[MeterWf])
          /\ \A i \in 1..Len(meter_head'[MeterWf]) : meter_head'[MeterWf][i].value = -1
    /\ ((MeterCall("set_int") \/ MeterCall("set_float")) /\ api'.ret = 0) =>
          /\ udp' = udp
          /\ meter_head'[MeterWf][find_meter_by_name(api'.name)].value # -1

C21_SetValuesSentOnce == [][C21_SendStep]_vars

\* the whole number nearest to x / d, the one farther from zero of two
\* that are equally near
Nearest(x, d) ==
    LET q == x \div d
        Dist(k) == IF k * d >= x THEN k * d - x ELSE x - k * d
        Abs(k) == IF k >= 0 THEN k ELSE 0 - k
    IN  CHOOSE k \in {q, q + 1} :
            \A j \in {q, q + 1} : Dist(k) < Dist(j) \/ (Dist(k) = Dist(j) /\ Abs(k) >= Abs(j))

\* C22: waveform_meter_set_float_value(v) on a registered meter whose unit
\* has the radix r and the range [min, max] stores round(v * 2^r), as a
\* signed 16-bit number, and returns 0 if min <= v <= max; for every other v
\* it leaves the stored value as it was and returns an error.
C22_SetFloatStep ==
    (MeterCall("set_float") /\ find_meter_by_name(api'.name) # 0) =>
        LET m == find_meter_by_name(api'.name)
            u == units[meter_head[MeterWf][m].unit]
            v == api'.value
            inrange == /\ v.k = "num"
                       /\ u.min * (2 ^ v.e) <= v.n
                       /\ v.n <= u.max * (2 ^ v.e)
        IN  IF inrange
            THEN /\ meter_head'[MeterWf][m].value = Nearest(v.n * (2 ^ u.radix), 2 ^ v.e)
                 /\ meter_head'[MeterWf][m].value \in -32768..32767
                 /\ api'.ret = 0
            ELSE /\ meter_head'[MeterWf][m].value = meter_head[MeterWf][m].value
                 /\ api'.ret # 0

C22_FloatStoredIffInRange == [][C22_SetFloatStep]_vars

\* C23: when more meters are set than a packet has slots,
\* waveform_meters_send returns a negative errno value (-EFBIG = -27), the
\* process goes on, and no packet is emitted; and no packet ever holds more
\* slots than the meter array has.
C23_SendStep ==
    MeterCall("send") =>
        /\ (Len(SetSlots(meter_head[MeterWf])) > MeterSlots) =>
              /\ ~api'.crashed
              /\ api'.ret = -27
              /\ udp' = udp
        /\ \A i \in 1..Len(udp') : Len(udp'[i].slots) <= MeterSlots

C23_TooManyMeters == [][C23_SendStep]_vars

\* C24: a send returns the sequence number of the command it has just
\* emitted, the number written in its line C<seq>|...
C24_ReturnStep ==
    (snd["user"].pc = "ret" /\ snd'["user"].pc = "idle") =>
        snd'["user"].ret = snd["user"].seq

C24_ReturnsEmittedSequence == [][C24_ReturnStep]_vars

\* a discovery packet the listener has to take: the right class, type and
\* stream id, an ip that is an address, a port that is a number of 16 bits
ValidDiscovery(p) ==
    /\ p.class_id = "DISCOVERY_CLASS_ID"
    /\ p.packet_type = "EXT_DATA_WITH_STREAM_ID"
    /\ p.stream_id = "DISCOVERY_STREAM_ID"
    /\ \E i \in 1..Len(p.payload) :
          /\ p.payload[i].key = "ip"
          /\ Len(p.payload[i].val) = 4
          /\ \A j \in 1..4 : p.payload[i].val[j] \in 0..255
    /\ \E i \in 1..Len(p.payload) :
          /\ p.payload[i].key = "port"
          /\ p.payload[i].val # <<>>
          /\ \A j \in 1..Len(p.payload[i].val) : p.payload[i].val[j] \in 0..9
          /\ Dec(p.payload[i].val) <= 65535

\* the address a valid discovery packet announces
AnnouncedBy(p) ==
    LET ip == CHOOSE i \in 1..Len(p.payload) : p.payload[i].key = "ip"
        port == CHOOSE i \in 1..Len(p.payload) : p.payload[i].key = "port"
    IN  [null |-> FALSE, sin_addr |-> p.payload[ip].val,
         sin_port |-> <<Dec(p.payload[port].val) \div 256, Dec(p.payload[port].val) % 256>>]

\* C25: while the listener listens no valid packet has arrived; when it
\* returns by a packet, that packet is the first valid one and the address
\* returned is the one it announces; when it returns by the timeout, no
\* valid packet has arrived and NULL is returned.
C25_Discovery ==
    LET valid == {i \in 1..Len(disc.rcvd) : ValidDiscovery(disc.rcvd[i])}
    IN  /\ disc.pc = "listening" => valid = {} /\ disc.addr.null
        /\ (disc.pc = "returned" /\ disc.how = "timeout") => valid = {} /\ disc.addr.null
        /\ (disc.pc = "returned" /\ disc.how = "packet") =>
              /\ valid = {Len(disc.rcvd)}
              /\ disc.addr = AnnouncedBy(disc.rcvd[Len(disc.rcvd)])

\* the positions of the "=" signs of a token
EqSigns(token) == {j \in 1..Len(token) : token[j] = "="}

\* the token is key=value with that key: one "=" sign, the key before it
IsKeyValue(token, key) ==
    /\ Cardinality(EqSigns(token)) = 1
    /\ \E j \in EqSigns(token) : SubSeq(token, 1, j - 1) = key

\* C26: find_kwarg returns the value of the first key=value token whose key
\* is the requested key, and NULL when no token is one; for the tokens
\* slice, status, mode=USB the key mode gives USB and the key level NULL.
C26_FindKwarg ==
    kw.pc = "returned" =>
        LET matches == {i \in 1..Len(kw.argv) : IsKeyValue(kw.argv[i], kw.key)}
            first == CHOOSE i \in matches : \A j \in matches : i <= j
            example == kw.argv = <<<<"s", "l", "i", "c", "e">>,
                                   <<"s", "t", "a", "t", "u", "s">>,
                                   <<"m", "o", "d", "e", "=", "U", "S", "B">>>>
        IN  /\ kw.found <=> matches # {}
            /\ kw.found =>
                  kw.value = SubSeq(kw.argv[first], Len(kw.key) + 2, Len(kw.argv[first]))
            /\ (example /\ kw.key = <<"m", "o", "d", "e">>) =>
                  (kw.found /\ kw.value = <<"U", "S", "B">>)
            /\ (example /\ kw.key = <<"l", "e", "v", "e", "l">>) => ~kw.found

\* C26's case: the key mode was searched in tokens that hold mode=LSB before
\* mode=USB after a token without "=", and LSB was returned
C26_Witness ==
    /\ kw.pc = "returned"
    /\ kw.key = <<"m", "o", "d", "e">>
    /\ kw.argv = <<<<"s", "l", "i", "c", "e">>,
                   <<"m", "o", "d", "e", "=", "L", "S", "B">>,
                   <<"m", "o", "d", "e", "=", "U", "S", "B">>>>
    /\ kw.found
    /\ kw.value = <<"L", "S", "B">>

\* C27: when the line of a command sent with a completion callback is handed
\* to the transport, the response queue already holds the entry of that
\* command; no line is on the wire while its entry is missing from the queue.
C27_EmitStep ==
    \A t \in Senders :
        (snd[t].pc = "emit" /\ snd[t].cb /\ SendEmit(t)) =>
            \E i \in 1..Len(rq) : rq[i].line = snd[t].seq

C27_EntryBeforeLine == [][C27_EmitStep]_vars

\* C28: in every reachable state the response queue holds at most one entry
\* for any sequence number.
C28_OneEntryPerSequence ==
    \A i, j \in 1..Len(rq) : rq[i].sequence = rq[j].sequence => i = j

\* C29: an R or Q frame whose sequence has no entry in the response queue
\* (never registered, or already removed) invokes no callback, schedules no
\* work item and leaves the response queue as it is.
C29_FrameStep ==
    \A tag \in {"R", "Q"}, s \in FrameSeqs, c \in FrameCodes, m \in FrameMsgs :
        (/\ RecvResponse(tag, s, c, m)
         /\ ~ \E i \in 1..Len(rq) : rq[i].sequence = StrToUL(s, 10)) =>
            /\ rq' = rq
            /\ cb_wq' = cb_wq
            /\ calls' = calls
            /\ freed' = freed

C29_UnknownSequenceIgnored == [][C29_FrameStep]_vars

\* C29's case: frames have arrived though no entry was ever registered, and
\* nothing is scheduled and nothing was invoked
C29_Witness ==
    /\ nframes > 0
    /\ nentries = 0
    /\ rq = <<>>
    /\ cb_wq = <<>>
    /\ calls = EmptyBag

\* C30: the first audio packet of the transmit direction (stream id with the
\* low bit set) seeds tx_stream_in_id, and every later transmit audio packet
\* whose stream id differs from the seeded value is dropped, no work item
\* being enqueued; the same for the receive direction (low bit clear) and
\* rx_stream_in_id.
C30_PacketStep ==
    (Len(pkts') = Len(pkts) + 1 /\ pkts'[Len(pkts')].kind = "audio") =>
        LET p == pkts'[Len(pkts')]
            tx == p.stream_id % 2 = 1
            key == IF tx THEN "tx_stream_in_id" ELSE "rx_stream_in_id"
            earlier == {i \in 1..Len(pkts) :
                           /\ pkts[i].kind = "audio"
                           /\ (pkts[i].stream_id % 2 = 1) = tx}
            first == CHOOSE i \in earlier : \A j \in earlier : i <= j
        IN  IF earlier = {}
            THEN \E t \in 1..Len(thr) :
                    thr[t].io = "loop" /\ streams'[thr[t].wf][key] = p.stream_id
            ELSE p.stream_id # pkts[first].stream_id => wq' = wq

C30_StreamIdSeeded == [][C30_PacketStep]_vars

\* C31: byte packets follow the direction logic of the audio packets with
\* the byte stream ids: the first byte packet of a direction seeds the byte
\* stream id, and a later byte packet of that direction with another stream
\* id is dropped, no work item being enqueued.
C31_PacketStep ==
    (Len(pkts') = Len(pkts) + 1 /\ pkts'[Len(pkts')].kind = "byte") =>
        LET p == pkts'[Len(pkts')]
            tx == p.stream_id % 2 = 1
            earlier == {i \in 1..Len(pkts) :
                           /\ pkts[i].kind = "byte"
                           /\ (pkts[i].stream_id % 2 = 1) = tx}
            first == CHOOSE i \in earlier : \A j \in earlier : i <= j
        IN  IF earlier = {}
            THEN \E t \in 1..Len(thr), k \in {"byte_stream_in_id", "byte_stream_out_id"} :
                    thr[t].io = "loop" /\ streams'[thr[t].wf][k] = p.stream_id
            ELSE p.stream_id # pkts[first].stream_id => wq' = wq

C31_ByteStreamIdSeeded == [][C31_PacketStep]_vars

\* C32: the meter list and the callback lists of a waveform are mutated only
\* before the start: while the control loop runs no step of the engine
\* inserts into them or removes from them.
C32_RunStep ==
    /\ \A w \in Waveforms :
          /\ Len(meter_head'[w]) = Len(meter_head[w])
          /\ \A i \in 1..Len(meter_head[w]) : meter_head'[w][i].name = meter_head[w][i].name
    /\ cmd_cbs' = cmd_cbs
    /\ status_cbs' = status_cbs

C32_ListsFixedAfterStart == [][C32_RunStep]_vars

\* C33: a response entry is never freed while a scheduled work item still
\* refers to it: after Q<seq>|0|... and R<seq>|... the item of the queued
\* response never finds the entry freed by the item of the final response,
\* in whatever order the pool runs the two.
C33_NoItemOfFreedEntry ==
    \A i \in 1..Len(cb_wq) :
        cb_wq[i].fn = "rq_call_cb" => cb_wq[i].rq_entry.id \notin freed

\* C34: the response entry registered for a command carries the sequence
\* number written in the line of that command, also while other threads
\* send commands on the same radio.
C34_EntryCarriesLineSequence ==
    \A i \in 1..Len(rq) : rq[i].sequence = rq[i].line

\* C35: for each waveform at most one data I/O thread exists at any time: no
\* activation starts a data loop while the thread of an earlier loop of the
\* waveform is still running or tearing down.
C35_OneIoThread ==
    \A w \in Waveforms :
        Cardinality({t \in 1..Len(thr) : thr[t].wf = w /\ thr[t].io # "done"}) <= 1

\* C36: vita_destroy always terminates: the data worker sees the stop flag
\* and exits, so the join of the teardown returns and the control thread
\* goes on, also when the teardown comes right after the worker was created.
C36_DestroyTerminates ==
    (ctl.pc \in {"join", "downjoin"}) ~> (ctl.pc \notin {"join", "downjoin"})

\* C37: for each waveform the ACTIVE and INACTIVE events scheduled to its
\* state callbacks alternate, beginning with ACTIVE, and each ACTIVE comes
\* with one initialization of the data loop; INACTIVE is never scheduled for
\* a waveform that is not active, whatever the slice number (255 included).
C37_ModeStep ==
    mode_change =>
        LET scheduled == {cb_wq'[i].state :
                             i \in {j \in (Len(cb_wq) + 1)..Len(cb_wq') :
                                       cb_wq'[j].fn = "radio_call_state_cb"}}
        IN  /\ "ACTIVE" \in scheduled =>
                  /\ announced[CurWf] # "ACTIVE"
                  /\ Len(thr') = Len(thr) + 1
            /\ "INACTIVE" \in scheduled => announced[CurWf] = "ACTIVE"

C37_StatesAlternate == [][C37_ModeStep]_vars

\* C38: a command of the radio is never dispatched to a command callback of
\* an inactive waveform, whatever its slice token (tokens that parse to the
\* marker of an inactive waveform, such as -1, included).
C38_CommandStep ==
    CommandStep =>
        \A i \in 1..Len(NewItems) :
            NewItems[i].fn = "radio_call_command_cb" =>
                \/ announced[NewItems[i].wf] = "ACTIVE"
                \/ active_slice[NewItems[i].wf] # -1

C38_NoDispatchToInactive == [][C38_CommandStep]_vars

\* C39: activating or deactivating one waveform does not disturb the data
\* path of another waveform that is active in the process: that waveform's
\* worker keeps running and its queued data work items are still executed,
\* none is dropped.  The step looked at is one of mode_change or vita_destroy
\* for a waveform none of whose I/O threads has reached its loop yet, so that
\* every queued item and every pending wake-up is another waveform's.
C39_OtherStep ==
    (/\ mode_change \/ (\E ok \in BOOLEAN : vita_destroy(ok))
     /\ \A t \in ThreadsOf(CurWf) : thr[t].io \in {"start", "sock", "send"}
     /\ \E t \in 1..Len(thr) :
           /\ thr[t].wf # CurWf
           /\ thr[t].io = "loop"
           /\ announced[thr[t].wf] = "ACTIVE") =>
        /\ wq' = wq
        /\ wq_sem' = wq_sem
        /\ wq_running => wq_running'

C39_OtherDataPathKept == [][C39_OtherStep]_vars

\* C40: every meter whose set operation succeeded since the last send is in
\* the next meter packet, whatever value was stored, the raw or fixed-point
\* value -1 included.  The step looked at is the send that follows a
\* successful set at once and emits a packet.
C40_SendStep ==
    (/\ api.fn \in {"set_int", "set_float"}
     /\ api.ret = 0
     /\ MeterCall("send")
     /\ Len(udp') = Len(udp) + 1) =>
        LET meter == meter_head[MeterWf][find_meter_by_name(api.name)]
            packet == udp'[Len(udp')]
        IN  \E i \in 1..Len(packet.slots) : packet.slots[i].id = meter.id

C40_SetMeterIsSent == [][C40_SendStep]_vars

====
